---- MODULE Spec2Model ----
(***************************************************************************)
(* Memento pattern (src/unnamed/part_005, the Memento.ts of the            *)
(* repository): TextDocument + DocumentHistory (cursor based undo/redo)    *)
(* and Originator + Caretaker (stack based undo).                          *)
(*                                                                         *)
(* JavaScript objects that can be shared by reference live in heaps        *)
(* (address -> object); a deep copy allocates a fresh address, a shallow   *)
(* copy keeps the nested address.  Strings are sequences of characters.    *)
(* Number-valued fields that are never used in arithmetic are kept as the  *)
(* text JSON.stringify prints for them ("12", "NaN", "null"), so that the  *)
(* JSON round trip is modelled by what it does to them.                    *)
(*                                                                         *)
(* Further parts, each with a specification of its own: the GameCharacter  *)
(* checkpoints of Memento.ts, the arithmetic and boolean interpreters      *)
(* (src/src/behavioral/Interpreter/Interpreter.spec.ts), the RemoteControl *)
(* of the Command pattern (src/src/behavioral/Visitor/Visitor.ts) and the  *)
(* Document approval states (src/src/behavioral/State/State.spec.ts).      *)
(***************************************************************************)
EXTENDS Integers, Sequences, FiniteSets, TLC

\* ------------------------------------------------------------------ bounds
MaxContentLen == 2
MaxHist == 3
MaxEdits == 3
MaxBackups == 3
MaxAutoSaves == 2
MaxAutoSaveCalls == 3
MaxExecuted == 2
MaxEntries == 7

\* ------------------------------------------------------------ state
VARIABLES
    docState,        \* TextDocument.state: top-level object, formatting by address
    fheap,           \* heap of formatting objects
    mementos,        \* DocumentHistory.mementos: the state each Memento holds
    currentIndex,    \* DocumentHistory.currentIndex (0-based, -1 when none)
    maxHistorySize,  \* DocumentHistory.maxHistorySize
    handle,          \* the object a client got from TextDocument.getState()
    op,              \* name of the last operation called
    ret,             \* what the last operation returned ("void", "true", "false")
    arg,             \* the argument the last operation was called with (NoArg when none)
    law,             \* observer of the saveState / edit / saveState / undo / redo scenario
    nEdits,          \* number of editing calls made so far (bounded by MaxEdits)
    clientMemento,   \* the Memento a client got from TextDocument.createMemento()
    saveInfo         \* what the last saveState() removed: forward entries, oldest entry

VARIABLES
    heap,            \* heap of the state objects of type T (Originator / Memento)
    originatorState, \* Originator.state: address of the live state object
    ctMementos,      \* Caretaker.mementos: address of the state each Memento holds
    captured,        \* per Memento: the state value it yielded when it was created
    ref,             \* the object reference the client code holds
    restoreFailed,   \* did Originator.restore throw inside the last operation
    errorLogged      \* did the last operation call console.error

VARIABLES
    character,       \* GameCharacter.state
    checkpoints,     \* GameCheckpointManager.checkpoints: name -> state held by the Memento
    autoSaves,       \* GameCheckpointManager.autoSaves: state held by each Memento
    maxAutoSaves,    \* GameCheckpointManager.maxAutoSaves
    autoLog,         \* observer: every state autoSave() captured, in call order
    liveNames        \* observer: names created and not deleted or cleared since

VARIABLES
    expression,      \* the text last given to a parser, as a sequence of characters
    context,         \* Context.variables / BooleanContext.variables
    tree,            \* the expression tree last parsed or built
    result           \* what the last interpret(context) returned or threw

VARIABLES
    light,           \* Light.isOn
    fan,             \* Fan.speed and Fan.prevSpeed
    commands,        \* RemoteControl.commands
    history,         \* RemoteControl.history
    before           \* observer: per command of history, light and fan just before it was executed

VARIABLES
    status,          \* Document.state, by the DocumentStatus of its class
    content,         \* Document.content
    entries          \* Document.history, without the time stamps

docVars == <<docState, fheap, mementos, currentIndex, maxHistorySize, handle, law, nEdits, clientMemento, saveInfo>>
caretakerVars == <<heap, originatorState, ctMementos, captured, ref, restoreFailed, errorLogged>>
gameVars == <<character, checkpoints, autoSaves, maxAutoSaves, autoLog, liveNames>>
interpVars == <<expression, context, tree, result>>
remoteVars == <<light, fan, commands, history, before>>
approvalVars == <<status, content, entries>>
vars == <<docState, fheap, mementos, currentIndex, maxHistorySize, handle, law, nEdits, clientMemento, saveInfo,
          heap, originatorState, ctMementos, captured, ref, restoreFailed, errorLogged,
          character, checkpoints, autoSaves, maxAutoSaves, autoLog, liveNames,
          expression, context, tree, result,
          light, fan, commands, history, before, status, content, entries, op, ret, arg>>

\* ------------------------------------------------------------ JavaScript helpers
Min(a, b) == IF a < b THEN a ELSE b
Max(a, b) == IF a > b THEN a ELSE b

\* String.prototype.slice(start, end): negative indices count from the end,
\* indices are clamped to [0, length], an empty range gives ''.
SliceIndex(len, i) == IF i < 0 THEN Max(len + i, 0) ELSE Min(i, len)
Slice(s, start, end) ==
    LET from == SliceIndex(Len(s), start)
        to == SliceIndex(Len(s), end)
    IN  IF from >= to THEN << >> ELSE SubSeq(s, from + 1, to)
SliceFrom(s, start) == Slice(s, start, Len(s))

\* JSON.parse(JSON.stringify(n)) of a number: NaN (and +-Infinity) is printed
\* as null and parsed back as null; finite numbers and null come back as they are.
JsonNumber(n) == IF n = "NaN" THEN "null" ELSE n

\* JSON.parse(JSON.stringify(state)) of a DocumentState value: strings,
\* booleans and finite numbers are preserved, number fields go through JsonNumber.
JsonDocState(v) ==
    [v EXCEPT !.formatting = [@ EXCEPT !.fontSize = JsonNumber(@)]]

\* ------------------------------------------------------------ formatting heap
FAddr == 1..2

NoFormatting == [isBold |-> FALSE, isItalic |-> FALSE, fontSize |-> "free", fontFamily |-> "free"]

\* the addresses some reference still reaches
FReachable(doc, h) == {doc.formatting} \cup (IF h.held THEN {h.formatting} ELSE {})

\* a new object literal that is about to replace the document's formatting
\* object: the lowest address the client's handle does not refer to
FAlloc(h) == CHOOSE a \in FAddr \ (IF h.held THEN {h.formatting} ELSE {}) :
                 \A b \in FAddr \ (IF h.held THEN {h.formatting} ELSE {}) : a <= b

\* garbage collection: objects nothing refers to leave the heap
FCollect(hp, doc, h) == [a \in FAddr |-> IF a \in FReachable(doc, h) THEN hp[a] ELSE NoFormatting]

\* ------------------------------------------------------------ TextDocument
\* the DocumentState value reachable from a top-level object
Deref(obj, hp) == [content |-> obj.content, cursorPosition |-> obj.cursorPosition,
                   selectionLength |-> obj.selectionLength, formatting |-> hp[obj.formatting]]

DocValue == Deref(docState, fheap)

DefaultFormatting == [isBold |-> FALSE, isItalic |-> FALSE, fontSize |-> "12", fontFamily |-> "Arial"]

\* TextDocument.createMemento: the state the new Memento holds
CreateMemento(doc, hp) == JsonDocState(Deref(doc, hp))

\* Memento.getState
MementoGetState(m) == JsonDocState(m)

NoHandle == [held |-> FALSE, content |-> << >>, cursorPosition |-> 0, selectionLength |-> 0, formatting |-> 1]

\* TextDocument.type on the top-level object (this.state is mutated in place)
TypeText(doc, text) ==
    [doc EXCEPT !.content = Slice(doc.content, 0, doc.cursorPosition) \o text
                            \o SliceFrom(doc.content, doc.cursorPosition + doc.selectionLength),
                !.cursorPosition = doc.cursorPosition + Len(text),
                !.selectionLength = 0]

\* TextDocument.delete
DeleteText(doc) ==
    IF doc.selectionLength > 0
    THEN [doc EXCEPT !.content = Slice(doc.content, 0, doc.cursorPosition)
                                 \o SliceFrom(doc.content, doc.cursorPosition + doc.selectionLength),
                     !.selectionLength = 0]
    ELSE IF doc.cursorPosition < Len(doc.content)
         THEN [doc EXCEPT !.content = Slice(doc.content, 0, doc.cursorPosition)
                                      \o SliceFrom(doc.content, doc.cursorPosition + 1)]
         ELSE doc

\* TextDocument.moveCursor
MoveCursorTo(doc, position) ==
    IF position >= 0 /\ position <= Len(doc.content)
    THEN [doc EXCEPT !.cursorPosition = position, !.selectionLength = 0]
    ELSE doc

\* TextDocument.select
SelectRange(doc, start, length) ==
    IF start >= 0 /\ start + length <= Len(doc.content)
    THEN [doc EXCEPT !.cursorPosition = start, !.selectionLength = length]
    ELSE doc

\* {...this.state.formatting, ...formatting}
MergeFormatting(old, partial) ==
    [k \in DOMAIN old |-> IF k \in DOMAIN partial THEN partial[k] ELSE old[k]]

\* a restore that forgets the cursor position
RestoredStateCursorLost(m) == [JsonDocState(MementoGetState(m)) EXCEPT !.cursorPosition = 0]

\* TextDocument.restoreFromMemento: the value of the new this.state
RestoredState(m) == JsonDocState(MementoGetState(m))

\* ------------------------------------------------------------ DocumentHistory
\* a saveState that keeps the forward history
TruncateForwardKeepsAll(ms, idx) == ms

\* saveState, first step: remove any forward history
TruncateForward(ms, idx) ==
    IF idx < Len(ms) - 1 THEN Slice(ms, 0, idx + 1) ELSE ms

\* a limit that forgets to move the cursor with the entries
LimitHistoryCursorStays(ms, idx, max) ==
    IF Len(ms) > max
    THEN [mementos |-> Tail(ms), currentIndex |-> idx]
    ELSE [mementos |-> ms, currentIndex |-> idx]

\* a limit that lets one entry too many in
LimitHistoryOffByOne(ms, idx, max) ==
    IF Len(ms) > max + 1
    THEN [mementos |-> Tail(ms), currentIndex |-> idx - 1]
    ELSE [mementos |-> ms, currentIndex |-> idx]

\* saveState, last step: limit the history size
LimitHistory(ms, idx, max) ==
    IF Len(ms) > max
    THEN [mementos |-> Tail(ms), currentIndex |-> idx - 1]
    ELSE [mementos |-> ms, currentIndex |-> idx]

\* DocumentHistory.saveState on (mementos, currentIndex) with the new snapshot
SaveStateResult(ms, idx, snap, max) ==
    LET pushed == Append(TruncateForward(ms, idx), snap)
    IN  LimitHistory(pushed, Len(pushed) - 1, max)

\* an undo that stops one entry early
CanUndoOffByOne(idx) == idx > 1

CanUndo(idx) == idx > 0
CanRedo(idx, len) == idx < len - 1

\* ------------------------------------------------------------ scenario observer
\* law.phase: 1 after saveState, 2 after edits that followed it, 3 after the
\* saveState that followed them, 4 after the undo that followed, 5 after the
\* redo that followed; 0 otherwise.  pre/post: the document state at the
\* first and at the second saveState.
NoDoc == [content |-> << >>, cursorPosition |-> 0, selectionLength |-> 0, formatting |-> NoFormatting]
LawIdle == [phase |-> 0, pre |-> NoDoc, post |-> NoDoc]

LawSave(l, now) ==
    IF l.phase = 2 THEN [phase |-> 3, pre |-> l.pre, post |-> now]
    ELSE [phase |-> 1, pre |-> now, post |-> NoDoc]
LawEdit(l) ==
    IF l.phase \in {1, 2} THEN [phase |-> 2, pre |-> l.pre, post |-> NoDoc]
    ELSE IF l.phase = 3 THEN [phase |-> 2, pre |-> l.post, post |-> NoDoc]
    ELSE LawIdle
LawUndo(l) == IF l.phase = 3 THEN [l EXCEPT !.phase = 4] ELSE LawIdle
LawRedo(l) == IF l.phase = 4 THEN [l EXCEPT !.phase = 5] ELSE LawIdle

\* ------------------------------------------------------------ inputs
Texts == {<<"a">>, <<"b">>}
Positions == {0, MaxContentLen + 1}
SelectStarts == {0}
SelectLengths == {-1, 1}
Partials == {[isBold |-> TRUE], [fontSize |-> "NaN"]}

\* ------------------------------------------------------------ initial state
\* new TextDocument(); new DocumentHistory(document, maxHistorySize)
InitialDoc == [content |-> << >>, cursorPosition |-> 0, selectionLength |-> 0, formatting |-> 1]
InitialHeap == [a \in FAddr |-> IF a = 1 THEN DefaultFormatting ELSE NoFormatting]

InitDoc ==
    /\ docState = InitialDoc
    /\ fheap = InitialHeap
    /\ maxHistorySize \in 0..MaxHist
    /\ LET r == SaveStateResult(<< >>, -1, CreateMemento(InitialDoc, InitialHeap), maxHistorySize)
       IN  mementos = r.mementos /\ currentIndex = r.currentIndex
    /\ handle = NoHandle
    /\ law = LawSave(LawIdle, Deref(InitialDoc, InitialHeap))
    /\ nEdits = 0

NoSave == [discarded |-> 0, evicted |-> FALSE]

NoClientMemento == [held |-> FALSE, state |-> NoDoc]

\* an operation called without an argument
NoArg == "none"

\* the GameCharacter / GameCheckpointManager part while it is not in use
GameIdle ==
    /\ character = "none"
    /\ checkpoints = << >>
    /\ autoSaves = << >>
    /\ maxAutoSaves = 0
    /\ autoLog = << >>
    /\ liveNames = {}

\* no text parsed, no tree, nothing interpreted yet
NoExpression == [parsed |-> FALSE, text |-> << >>]
NoTree == [type |-> "none"]
NoResult == [kind |-> "none"]

\* no RemoteControl and no Document (approval) is in use
RemoteIdle ==
    /\ light = FALSE
    /\ fan = [speed |-> 0, prevSpeed |-> 0]
    /\ commands = << >>
    /\ history = << >>
    /\ before = << >>

ApprovalIdle ==
    /\ status = "none"
    /\ content = << >>
    /\ entries = << >>

\* the Interpreter part while it is not in use
InterpreterIdle ==
    /\ expression = NoExpression
    /\ context = << >>
    /\ tree = NoTree
    /\ result = NoResult

\* the Originator / Caretaker part while it is not in use
CaretakerIdle ==
    /\ heap = << >>
    /\ originatorState = 0
    /\ ctMementos = << >>
    /\ captured = << >>
    /\ ref = [src |-> "none", addr |-> 0]
    /\ restoreFailed = FALSE
    /\ errorLogged = FALSE

Init ==
    /\ InitDoc
    /\ clientMemento = NoClientMemento
    /\ saveInfo = [discarded |-> 0, evicted |-> Len(mementos) = 0]
    /\ CaretakerIdle
    /\ GameIdle
    /\ InterpreterIdle
    /\ RemoteIdle
    /\ ApprovalIdle
    /\ op = "constructor"
    /\ ret = "void"
    /\ arg = NoArg

\* new TextDocument() alone, no DocumentHistory
DocumentAlone ==
    /\ docState = InitialDoc
    /\ fheap = InitialHeap
    /\ maxHistorySize = 0
    /\ mementos = << >>
    /\ currentIndex = -1
    /\ handle = NoHandle
    /\ law = LawIdle
    /\ nEdits = 0
    /\ clientMemento = NoClientMemento
    /\ saveInfo = NoSave

InitAlias ==
    /\ DocumentAlone
    /\ CaretakerIdle
    /\ GameIdle
    /\ InterpreterIdle
    /\ RemoteIdle
    /\ ApprovalIdle
    /\ op = "constructor"
    /\ ret = "void"
    /\ arg = NoArg

\* ------------------------------------------------------------ editing actions
Edited(newDoc, name) ==
    /\ nEdits < MaxEdits
    /\ Len(newDoc.content) <= MaxContentLen
    /\ docState' = newDoc
    /\ nEdits' = nEdits + 1
    /\ law' = LawEdit(law)
    /\ op' = name
    /\ arg' = NoArg
    /\ ret' = "void"
    /\ UNCHANGED <<fheap, mementos, currentIndex, maxHistorySize, handle, clientMemento>>
    /\ saveInfo' = NoSave
    /\ UNCHANGED <<caretakerVars, gameVars, interpVars, remoteVars, approvalVars>>

Type == \E text \in Texts : Edited(TypeText(docState, text), "edit")
Delete == Edited(DeleteText(docState), "edit")
MoveCursor == \E position \in Positions : Edited(MoveCursorTo(docState, position), "edit")
Select == \E start \in SelectStarts, length \in SelectLengths :
              Edited(SelectRange(docState, start, length), "edit")

\* this.state.formatting is replaced by a new object
ApplyFormatting ==
    \E partial \in Partials :
        LET a == FAlloc(handle)
            newDoc == [docState EXCEPT !.formatting = a]
        IN  /\ nEdits < MaxEdits
            /\ docState' = newDoc
            /\ fheap' = FCollect([fheap EXCEPT ![a] = MergeFormatting(fheap[docState.formatting], partial)],
                                 newDoc, handle)
            /\ nEdits' = nEdits + 1
            /\ law' = LawEdit(law)
            /\ op' = "edit"
            /\ arg' = NoArg
            /\ ret' = "void"
            /\ UNCHANGED <<mementos, currentIndex, maxHistorySize, handle, clientMemento>>
            /\ saveInfo' = NoSave
    /\ UNCHANGED <<caretakerVars, gameVars, interpVars, remoteVars, approvalVars>>

\* ------------------------------------------------------------ client handle
\* const s = document.getState(): {...this.state}, a new top-level object
\* whose formatting field refers to the document's own formatting object
GetState ==
    /\ handle' = [held |-> TRUE, content |-> docState.content,
                  cursorPosition |-> docState.cursorPosition,
                  selectionLength |-> docState.selectionLength,
                  formatting |-> docState.formatting]
    /\ fheap' = FCollect(fheap, docState, handle')
    /\ op' = "getState"
    /\ arg' = NoArg
    /\ ret' = "void"
    /\ UNCHANGED <<docState, mementos, currentIndex, maxHistorySize, law, nEdits, clientMemento>>
    /\ saveInfo' = NoSave
    /\ UNCHANGED <<caretakerVars, gameVars, interpVars, remoteVars, approvalVars>>

\* s.content = '' and the like: a write to a top-level field of the returned object
MutateHandleTop ==
    /\ handle.held
    /\ handle' = [handle EXCEPT !.content = << >>, !.cursorPosition = 0]
    /\ op' = "mutateReturned"
    /\ arg' = NoArg
    /\ ret' = "void"
    /\ UNCHANGED <<docState, fheap, mementos, currentIndex, maxHistorySize, law, nEdits, clientMemento>>
    /\ saveInfo' = NoSave
    /\ UNCHANGED <<caretakerVars, gameVars, interpVars, remoteVars, approvalVars>>

\* s.formatting.isBold = b: a write one level down in the returned object
MutateHandleNested ==
    \E b \in BOOLEAN :
        /\ handle.held
        /\ fheap' = [fheap EXCEPT ![handle.formatting] = [@ EXCEPT !.isBold = b]]
        /\ op' = "mutateReturned"
        /\ arg' = NoArg
        /\ ret' = "void"
        /\ UNCHANGED <<docState, mementos, currentIndex, maxHistorySize, handle, law, nEdits, clientMemento>>
        /\ saveInfo' = NoSave
    /\ UNCHANGED <<caretakerVars, gameVars, interpVars, remoteVars, approvalVars>>

\* ------------------------------------------------------------ history actions
SaveState ==
    LET r == SaveStateResult(mementos, currentIndex, CreateMemento(docState, fheap), maxHistorySize)
    IN  /\ mementos' = r.mementos
        /\ currentIndex' = r.currentIndex
        /\ law' = LawSave(law, DocValue)
        /\ op' = "saveState"
        /\ arg' = NoArg
        /\ ret' = "void"
        /\ saveInfo' = [discarded |-> Len(mementos) - Len(TruncateForward(mementos, currentIndex)),
                        evicted |-> Len(r.mementos) <= Len(TruncateForward(mementos, currentIndex))]
        /\ UNCHANGED <<docState, fheap, maxHistorySize, handle, nEdits, clientMemento>>
    /\ UNCHANGED <<caretakerVars, gameVars, interpVars, remoteVars, approvalVars>>

\* TextDocument.restoreFromMemento(m): this.state becomes a new object
RestoreFrom(m) ==
    LET v == RestoredState(m)
        a == FAlloc(handle)
        newDoc == [content |-> v.content, cursorPosition |-> v.cursorPosition,
                   selectionLength |-> v.selectionLength, formatting |-> a]
    IN  /\ docState' = newDoc
        /\ fheap' = FCollect([fheap EXCEPT ![a] = v.formatting], newDoc, handle)

\* an undo that drops the snapshot it steps back from, as a stack would
UndoPopping ==
    /\ op' = "undo"
    /\ arg' = NoArg
    /\ law' = LawUndo(law)
    /\ IF CanUndo(currentIndex)
       THEN /\ currentIndex' = currentIndex - 1
            /\ mementos' = SubSeq(mementos, 1, currentIndex)
            /\ RestoreFrom(mementos[currentIndex - 1 + 1])
            /\ ret' = "true"
       ELSE /\ ret' = "false"
            /\ UNCHANGED <<mementos, currentIndex, docState, fheap>>
    /\ UNCHANGED <<maxHistorySize, handle, nEdits, clientMemento>>
    /\ saveInfo' = NoSave
    /\ UNCHANGED <<caretakerVars, gameVars, interpVars, remoteVars, approvalVars>>
Undo ==
    /\ op' = "undo"
    /\ arg' = NoArg
    /\ law' = LawUndo(law)
    /\ IF CanUndo(currentIndex)
       THEN /\ currentIndex' = currentIndex - 1
            /\ RestoreFrom(mementos[currentIndex - 1 + 1])
            /\ ret' = "true"
       ELSE /\ ret' = "false"
            /\ UNCHANGED <<currentIndex, docState, fheap>>
    /\ UNCHANGED <<mementos, maxHistorySize, handle, nEdits, clientMemento>>
    /\ saveInfo' = NoSave
    /\ UNCHANGED <<caretakerVars, gameVars, interpVars, remoteVars, approvalVars>>

Redo ==
    /\ op' = "redo"
    /\ arg' = NoArg
    /\ law' = LawRedo(law)
    /\ IF CanRedo(currentIndex, Len(mementos))
       THEN /\ currentIndex' = currentIndex + 1
            /\ RestoreFrom(mementos[currentIndex + 1 + 1])
            /\ ret' = "true"
       ELSE /\ ret' = "false"
            /\ UNCHANGED <<currentIndex, docState, fheap>>
    /\ UNCHANGED <<mementos, maxHistorySize, handle, nEdits, clientMemento>>
    /\ saveInfo' = NoSave
    /\ UNCHANGED <<caretakerVars, gameVars, interpVars, remoteVars, approvalVars>>

\* ------------------------------------------------------------ client memento
\* const m = document.createMemento()
ClientCreateMemento ==
    /\ clientMemento' = [held |-> TRUE, state |-> CreateMemento(docState, fheap)]
    /\ op' = "createMemento"
    /\ arg' = NoArg
    /\ ret' = "void"
    /\ UNCHANGED <<docState, fheap, mementos, currentIndex, maxHistorySize, handle, law, nEdits>>
    /\ saveInfo' = NoSave
    /\ UNCHANGED <<caretakerVars, gameVars, interpVars, remoteVars, approvalVars>>

\* document.restoreFromMemento(m)
ClientRestore ==
    /\ clientMemento.held
    /\ RestoreFrom(clientMemento.state)
    /\ op' = "restoreFromMemento"
    /\ arg' = NoArg
    /\ ret' = "void"
    /\ UNCHANGED <<mementos, currentIndex, maxHistorySize, handle, law, nEdits, clientMemento>>
    /\ saveInfo' = NoSave
    /\ UNCHANGED <<caretakerVars, gameVars, interpVars, remoteVars, approvalVars>>

\* ------------------------------------------------------------ Originator<T>, Memento<T>
\* T is the TestState of the test suite, reduced to two fields
InitialStates == {[field1 |-> "initial", field2 |-> "10"], [field1 |-> "initial", field2 |-> "NaN"]}
NewStates == {[field1 |-> "changed", field2 |-> "20"], [field1 |-> "changed", field2 |-> "NaN"]}
Modified == [field1 |-> "modified", field2 |-> "99"]

\* JSON.parse(JSON.stringify(obj)) of a T value
JsonT(v) == [v EXCEPT !.field2 = JsonNumber(@)]

CAddr == 1..(MaxBackups + 2)

Range(f) == {f[x] : x \in DOMAIN f}
RefAddrs(r) == IF r.src = "none" THEN {} ELSE {r.addr}

\* a new object: the lowest address that no reference in 'used' holds
LowestFree(used) == CHOOSE a \in CAddr \ used : \A b \in CAddr \ used : a <= b

\* the heap with object a set to v, garbage collected down to 'used'
Store(h, a, v, used) == [x \in used |-> IF x = a THEN v ELSE h[x]]

\* Originator.deepCopy
DeepCopy(v) == JsonT(v)

\* Memento.getState of the memento whose state object is at address a
MementoState(h, a) == JsonT(h[a])

OriginatorValue == heap[originatorState]

\* a save() that hands its own state object to the Memento
SnapshotAddressAliased(orig, fresh) == orig

\* Originator.save: the object the new Memento holds is the deep copy
SnapshotAddress(orig, fresh) == fresh

\* ------------------------------------------------------------ Caretaker<T>
\* an undo() that restores the entry it has just popped
UndoTargetPopped(n) == n

\* Caretaker.undo with n > 1 mementos: the (1-based) entry it restores,
\* mementos[mementos.length - 1] after the pop
UndoTarget(n) == n - 1

\* a catch block that drops the popped memento
AfterFailedRestoreDropped(rest, popped) == rest

\* Caretaker.undo, catch block: the popped memento is pushed back
AfterFailedRestore(rest, popped) == Append(rest, popped)

\* an undo() that lets the error escape
UndoReturnRethrown(failed) == IF failed THEN "throw" ELSE "void"

\* Caretaker.undo returns nothing, the catch blocks do not rethrow
UndoReturn(failed) == "void"

\* new Originator(initialState); new Caretaker(originator): the constructor
\* keeps the object it is given, which the client code still holds
InitCaretaker ==
    /\ \E v \in InitialStates : heap = [a \in {1} |-> v]
    /\ originatorState = 1
    /\ ctMementos = << >>
    /\ captured = << >>
    /\ ref = [src |-> "ctor", addr |-> 1]
    /\ restoreFailed = FALSE
    /\ errorLogged = FALSE
    /\ DocumentAlone
    /\ GameIdle
    /\ InterpreterIdle
    /\ RemoteIdle
    /\ ApprovalIdle
    /\ op = "constructor"
    /\ ret = "void"
    /\ arg = NoArg

\* originator.setState(state)
SetState ==
    \E v \in NewStates :
        LET used == Range(ctMementos) \cup RefAddrs(ref)
            a == LowestFree(used)
        IN  /\ originatorState' = a
            /\ heap' = Store(heap, a, DeepCopy(v), used \cup {a})
            /\ op' = "Originator.setState"
            /\ arg' = NoArg
            /\ ret' = "void"
            /\ restoreFailed' = FALSE
            /\ errorLogged' = FALSE
            /\ UNCHANGED <<ctMementos, captured, ref>>
            /\ UNCHANGED <<docVars, gameVars, interpVars, remoteVars, approvalVars>>

\* Originator.restore(memento) without failure: the new heap and state address
Restored(m) ==
    LET used == Range(ctMementos') \cup RefAddrs(ref)
        a == LowestFree(used)
    IN  /\ originatorState' = a
        /\ heap' = Store(heap, a, DeepCopy(MementoState(heap, m)), used \cup {a})

\* caretaker.backup()
Backup ==
    LET used == {originatorState} \cup Range(ctMementos) \cup RefAddrs(ref)
        fresh == LowestFree(used)
        a == SnapshotAddress(originatorState, fresh)
    IN  /\ Len(ctMementos) < MaxBackups
        /\ ctMementos' = Append(ctMementos, a)
        /\ heap' = Store(heap, fresh, DeepCopy(heap[originatorState]), used \cup {a})
        /\ captured' = Append(captured, MementoState(heap', a))
        /\ op' = "Caretaker.backup"
        /\ arg' = NoArg
        /\ ret' = "void"
        /\ restoreFailed' = FALSE
        /\ errorLogged' = FALSE
        /\ UNCHANGED <<originatorState, ref>>
        /\ UNCHANGED <<docVars, gameVars, interpVars, remoteVars, approvalVars>>

\* caretaker.undo(); throws: Originator.restore raises before it assigns
CaretakerUndo ==
    \E throws \in BOOLEAN :
        LET n == Len(ctMementos)
            rest == SubSeq(ctMementos, 1, n - 1)
        IN  /\ op' = "Caretaker.undo"
            /\ arg' = NoArg
            /\ UNCHANGED ref
            /\ UNCHANGED <<docVars, gameVars, interpVars, remoteVars, approvalVars>>
            /\ IF n = 0
               THEN /\ ret' = "void"
                    /\ restoreFailed' = FALSE
                    /\ errorLogged' = FALSE
                    /\ UNCHANGED <<heap, originatorState, ctMementos, captured>>
               ELSE IF n = 1
               THEN /\ ret' = UndoReturn(throws)
                    /\ restoreFailed' = throws
                    /\ errorLogged' = throws
                    /\ UNCHANGED <<ctMementos, captured>>
                    /\ IF throws THEN UNCHANGED <<heap, originatorState>>
                                 ELSE Restored(ctMementos[1])
               ELSE /\ ret' = UndoReturn(throws)
                    /\ restoreFailed' = throws
                    /\ errorLogged' = throws
                    /\ IF throws
                       THEN /\ ctMementos' = AfterFailedRestore(rest, ctMementos[n])
                            /\ captured' = SubSeq(captured, 1, Len(ctMementos'))
                            /\ heap' = [x \in {originatorState} \cup Range(ctMementos') \cup RefAddrs(ref)
                                          |-> heap[x]]
                            /\ UNCHANGED originatorState
                       ELSE /\ ctMementos' = rest
                            /\ captured' = SubSeq(captured, 1, n - 1)
                            /\ Restored(ctMementos[UndoTarget(n)])

\* the index check of restoreToIndex: index < 0 || index >= length throws
ValidIndexZeroRejected(index, length) == index > 0 /\ index < length
ValidIndex(index, length) == ~(index < 0 \/ index >= length)

\* caretaker.restoreToIndex(index)
RestoreToIndex ==
    \E index \in -1..MaxBackups, throws \in BOOLEAN :
        /\ op' = "Caretaker.restoreToIndex"
        /\ arg' = index
        /\ errorLogged' = FALSE
        /\ UNCHANGED <<ctMementos, captured, ref>>
        /\ UNCHANGED <<docVars, gameVars, interpVars, remoteVars, approvalVars>>
        /\ IF ~ValidIndex(index, Len(ctMementos))
           THEN /\ ret' = "throw: Invalid memento index"
                /\ restoreFailed' = FALSE
                /\ UNCHANGED <<heap, originatorState>>
           ELSE IF throws
           THEN /\ ret' = "throw"
                /\ restoreFailed' = TRUE
                /\ UNCHANGED <<heap, originatorState>>
           ELSE /\ ret' = "void"
                /\ restoreFailed' = FALSE
                /\ Restored(ctMementos[index + 1])

\* ------------------------------------------------------------ client references
\* const s = originator.getState()
RefGetState ==
    LET used == {originatorState} \cup Range(ctMementos)
        a == LowestFree(used)
    IN  /\ ref' = [src |-> "getState", addr |-> a]
        /\ heap' = Store(heap, a, DeepCopy(heap[originatorState]), used \cup {a})
        /\ op' = "getState"
        /\ arg' = NoArg
        /\ ret' = "void"
        /\ restoreFailed' = FALSE
        /\ errorLogged' = FALSE
        /\ UNCHANGED <<originatorState, ctMementos, captured>>
        /\ UNCHANGED <<docVars, gameVars, interpVars, remoteVars, approvalVars>>

\* const s = caretaker.getMementos()[i].getState()
RefMementoGetState ==
    \E i \in 1..Len(ctMementos) :
        LET used == {originatorState} \cup Range(ctMementos)
            a == LowestFree(used)
        IN  /\ ref' = [src |-> "memento", addr |-> a]
            /\ heap' = Store(heap, a, MementoState(heap, ctMementos[i]), used \cup {a})
            /\ op' = "getState"
            /\ arg' = NoArg
            /\ ret' = "void"
            /\ restoreFailed' = FALSE
            /\ errorLogged' = FALSE
            /\ UNCHANGED <<originatorState, ctMementos, captured>>
            /\ UNCHANGED <<docVars, gameVars, interpVars, remoteVars, approvalVars>>

\* s.field1 = 'modified'; s.field2 = 99
MutateRef ==
    /\ ref.src # "none"
    /\ heap' = [heap EXCEPT ![ref.addr] = Modified]
    /\ op' = "mutateReturned"
    /\ arg' = NoArg
    /\ ret' = "void"
    /\ restoreFailed' = FALSE
    /\ errorLogged' = FALSE
    /\ UNCHANGED <<originatorState, ctMementos, captured, ref>>
    /\ UNCHANGED <<docVars, gameVars, interpVars, remoteVars, approvalVars>>

\* ------------------------------------------------------------ GameCharacter
\* CharacterState, kept to the fields move() writes and one it does not; the
\* other mutators of GameCharacter write their own fields in the same way.
\* Coordinates are kept as the text JSON.stringify prints for them.
InitialCharacter ==
    [name |-> "Hero", health |-> "100", position |-> [x |-> "0", y |-> "0", z |-> "0"]]

\* the x coordinates the client moves the character to
MoveTargets == {"0", "10", "NaN"}

\* the checkpoint names the client uses
Names == {"First", "Second"}

\* JSON.parse(JSON.stringify(state)) of a CharacterState value
JsonCharacter(v) ==
    [v EXCEPT !.position = [c \in DOMAIN @ |-> JsonNumber(@[c])]]

\* character.createMemento(): the state the new Memento holds, a getState()
CharacterCreateMemento == JsonCharacter(character)

\* character.restoreFromMemento(memento): the copy of memento.getState()
CharacterRestored(m) == JsonCharacter(JsonCharacter(m))

\* Map.prototype.set / delete on the checkpoints map
MapSet(map, name, m) == [n \in DOMAIN map \cup {name} |-> IF n = name THEN m ELSE map[n]]
MapDeleteKept(map, name) == map
MapDelete(map, name) == [n \in DOMAIN map \ {name} |-> map[n]]

\* autoSave() after its push: the oldest entry goes when the cap is exceeded
AfterPushNewestDropped(saves, max) ==
    IF Len(saves) > max THEN SubSeq(saves, 1, Len(saves) - 1) ELSE saves
AfterPush(saves, max) ==
    IF Len(saves) > max THEN Tail(saves) ELSE saves

\* new GameCharacter('Hero'); new GameCheckpointManager(character, maxAutoSaves)
InitGame ==
    /\ character = InitialCharacter
    /\ checkpoints = << >>
    /\ autoSaves = << >>
    /\ maxAutoSaves \in 0..MaxAutoSaves
    /\ autoLog = << >>
    /\ liveNames = {}
    /\ DocumentAlone
    /\ CaretakerIdle
    /\ InterpreterIdle
    /\ RemoteIdle
    /\ ApprovalIdle
    /\ op = "constructor"
    /\ ret = "void"
    /\ arg = NoArg

\* character.move(x, 0, 0)
Move ==
    \E x \in MoveTargets :
        /\ character' = [character EXCEPT !.position = [x |-> x, y |-> "0", z |-> "0"]]
        /\ op' = "move"
        /\ ret' = "void"
        /\ arg' = NoArg
        /\ UNCHANGED <<checkpoints, autoSaves, maxAutoSaves, autoLog, liveNames>>
        /\ UNCHANGED <<docVars, caretakerVars, interpVars, remoteVars, approvalVars>>

\* manager.createCheckpoint(name)
CreateCheckpoint ==
    \E name \in Names :
        /\ checkpoints' = MapSet(checkpoints, name, CharacterCreateMemento)
        /\ liveNames' = liveNames \cup {name}
        /\ op' = "createCheckpoint"
        /\ ret' = "void"
        /\ arg' = name
        /\ UNCHANGED <<character, autoSaves, maxAutoSaves, autoLog>>
        /\ UNCHANGED <<docVars, caretakerVars, interpVars, remoteVars, approvalVars>>

\* manager.restoreCheckpoint(name)
RestoreCheckpoint ==
    \E name \in Names :
        /\ IF name \in DOMAIN checkpoints
           THEN /\ character' = CharacterRestored(checkpoints[name])
                /\ ret' = "true"
           ELSE /\ character' = character
                /\ ret' = "false"
        /\ op' = "restoreCheckpoint"
        /\ arg' = name
        /\ UNCHANGED <<checkpoints, autoSaves, maxAutoSaves, autoLog, liveNames>>
        /\ UNCHANGED <<docVars, caretakerVars, interpVars, remoteVars, approvalVars>>

\* manager.autoSave()
AutoSave ==
    /\ Len(autoLog) < MaxAutoSaveCalls
    /\ autoSaves' = AfterPush(Append(autoSaves, CharacterCreateMemento), maxAutoSaves)
    /\ autoLog' = Append(autoLog, JsonCharacter(character))
    /\ op' = "autoSave"
    /\ ret' = "void"
    /\ arg' = NoArg
    /\ UNCHANGED <<character, checkpoints, maxAutoSaves, liveNames>>
    /\ UNCHANGED <<docVars, caretakerVars, interpVars, remoteVars, approvalVars>>

\* manager.loadLastAutoSave()
LoadLastAutoSave ==
    /\ IF Len(autoSaves) = 0
       THEN /\ character' = character
            /\ ret' = "false"
       ELSE /\ character' = CharacterRestored(autoSaves[Len(autoSaves)])
            /\ ret' = "true"
    /\ op' = "loadLastAutoSave"
    /\ arg' = NoArg
    /\ UNCHANGED <<checkpoints, autoSaves, maxAutoSaves, autoLog, liveNames>>
    /\ UNCHANGED <<docVars, caretakerVars, interpVars, remoteVars, approvalVars>>

\* manager.deleteCheckpoint(name): Map.delete tells whether the key was there
DeleteCheckpoint ==
    \E name \in Names :
        /\ checkpoints' = MapDelete(checkpoints, name)
        /\ liveNames' = liveNames \ {name}
        /\ ret' = (IF name \in DOMAIN checkpoints THEN "true" ELSE "false")
        /\ op' = "deleteCheckpoint"
        /\ arg' = name
        /\ UNCHANGED <<character, autoSaves, maxAutoSaves, autoLog>>
        /\ UNCHANGED <<docVars, caretakerVars, interpVars, remoteVars, approvalVars>>

\* manager.clearAllCheckpoints()
ClearAllCheckpoints ==
    /\ checkpoints' = << >>
    /\ liveNames' = {}
    /\ op' = "clearAllCheckpoints"
    /\ ret' = "void"
    /\ arg' = NoArg
    /\ UNCHANGED <<character, autoSaves, maxAutoSaves, autoLog>>
    /\ UNCHANGED <<docVars, caretakerVars, interpVars, remoteVars, approvalVars>>

\* ------------------------------------------------------------ Interpreter: values
\* (src/src/behavioral/Interpreter/Interpreter.spec.ts, from line 329 on)
\* Numbers are exact fractions num/den in lowest terms with den > 0, so that
\* a quotient is kept as a value of its own and never rounded to an integer.
RECURSIVE Gcd(_, _)
Gcd(a, b) == IF b = 0 THEN a ELSE Gcd(b, a % b)

Fraction(n, d) ==
    LET g == Gcd(IF n < 0 THEN -n ELSE n, IF d < 0 THEN -d ELSE d)
        sign == IF d < 0 THEN -1 ELSE 1
    IN  [num |-> sign * (n \div g), den |-> sign * (d \div g)]

Num(n) == [num |-> n, den |-> 1]

\* the JavaScript operators + - * / on two numbers, by the node type using them
Arithmetic(type, x, y) ==
    CASE type = "Add" -> Fraction(x.num * y.den + y.num * x.den, x.den * y.den)
      [] type = "Subtract" -> Fraction(x.num * y.den - y.num * x.den, x.den * y.den)
      [] type = "Multiply" -> Fraction(x.num * y.num, x.den * y.den)
      [] type = "Divide" -> Fraction(x.num * y.den, x.den * y.num)

\* what interpret() does: return a value or throw an Error
Returned(v) == [kind |-> "value", value |-> v]
Thrown(message, name) == [kind |-> "throw", message |-> message, name |-> name]

\* ------------------------------------------------------------ Interpreter: trees
VariableExpression(name) == [type |-> "Variable", name |-> name]
NumberExpression(value) == [type |-> "Number", value |-> value]
BooleanVariableExpression(name) == [type |-> "BooleanVariable", name |-> name]
BooleanConstantExpression(value) == [type |-> "BooleanConstant", value |-> value]
NotExpression(e) == [type |-> "Not", expression |-> e]

\* new AddExpression(left, right), SubtractExpression, MultiplyExpression,
\* DivideExpression, AndExpression, OrExpression: type names the class
BinaryExpression(type, left, right) == [type |-> type, left |-> left, right |-> right]

\* new VariableExpression('a'), new BooleanVariableExpression('p')
Var(c) == VariableExpression(<<c>>)
BoolVar(c) == BooleanVariableExpression(<<c>>)

\* the nodes of a tree, the tree itself included
RECURSIVE Subtrees(_)
Subtrees(t) ==
    {t} \cup (IF "left" \in DOMAIN t THEN Subtrees(t.left) \cup Subtrees(t.right)
              ELSE IF "expression" \in DOMAIN t THEN Subtrees(t.expression)
              ELSE {})

\* Context.getValue(variable)
\* a getValue that gives 0 for a name that is not bound
GetValueDefaulted(ctx, variable) ==
    IF variable \in DOMAIN ctx
    THEN Returned(ctx[variable])
    ELSE Returned(Num(0))
GetValue(ctx, variable) ==
    IF variable \in DOMAIN ctx
    THEN Returned(ctx[variable])
    ELSE Thrown("Variable not defined", variable)

\* left.interpret(context) <op> right.interpret(context) of AddExpression,
\* SubtractExpression, MultiplyExpression: the left operand is evaluated
\* first, so its exception is the one that propagates
InterpretBinary(type, l, r) ==
    IF l.kind = "throw" THEN l
    ELSE IF r.kind = "throw" THEN r
    ELSE Returned(Arithmetic(type, l.value, r.value))

\* DivideExpression.interpret: the divisor is evaluated and tested first, the
\* left operand only after that
InterpretDivideLeftFirst(l, r) ==
    IF l.kind = "throw" THEN l
    ELSE IF r.kind = "throw" THEN r
    ELSE IF r.value.num = 0 THEN Thrown("Division by zero", << >>)
    ELSE Returned(Arithmetic("Divide", l.value, r.value))
InterpretDivide(l, r) ==
    IF r.kind = "throw" THEN r
    ELSE IF r.value.num = 0 THEN Thrown("Division by zero", << >>)
    ELSE IF l.kind = "throw" THEN l
    ELSE Returned(Arithmetic("Divide", l.value, r.value))

RECURSIVE Interpret(_, _)
Interpret(t, ctx) ==
    CASE t.type = "Variable" -> GetValue(ctx, t.name)
      [] t.type = "Number" -> Returned(t.value)
      [] t.type = "Divide" -> InterpretDivide(Interpret(t.left, ctx), Interpret(t.right, ctx))
      [] OTHER -> InterpretBinary(t.type, Interpret(t.left, ctx), Interpret(t.right, ctx))

\* ------------------------------------------------------------ ExpressionParser
\* Text is a sequence of one-character strings, a token is a piece of text.
\* expression.replace(/[\(\)\+\-\*\/]/g, ' $& ')
RECURSIVE PadOperators(_)
PadOperators(s) ==
    IF s = << >> THEN << >>
    ELSE (IF Head(s) \in {"(", ")", "+", "-", "*", "/"}
          THEN <<" ", Head(s), " ">>
          ELSE <<Head(s)>>)
         \o PadOperators(Tail(s))

\* String.prototype.trim
RECURSIVE TrimStart(_)
TrimStart(s) == IF s # << >> /\ Head(s) = " " THEN TrimStart(Tail(s)) ELSE s

RECURSIVE TrimEnd(_)
TrimEnd(s) ==
    IF s # << >> /\ s[Len(s)] = " " THEN TrimEnd(SubSeq(s, 1, Len(s) - 1)) ELSE s

Trim(s) == TrimEnd(TrimStart(s))

\* String.prototype.split(/\s+/): the pieces between runs of spaces; a text
\* without spaces, the empty text included, is one piece
RECURSIVE SplitFrom(_, _)
SplitFrom(s, piece) ==
    IF s = << >> THEN <<piece>>
    ELSE IF Head(s) = " " THEN <<piece>> \o SplitFrom(TrimStart(s), << >>)
    ELSE SplitFrom(Tail(s), Append(piece, Head(s)))

Tokenize(e) == SplitFrom(Trim(PadOperators(e)), << >>)

\* what tokens.shift() gives on an empty array; Number(undefined) is NaN
UndefinedToken == <<"undefined value">>

\* tokens.shift()
Shift(tokens) ==
    IF tokens = << >>
    THEN [token |-> UndefinedToken, rest |-> << >>]
    ELSE [token |-> Head(tokens), rest |-> Tail(tokens)]

\* the decimal digits, the digit of value d at place d + 1
Digits == <<"0", "1", "2", "3", "4", "5", "6", "7", "8", "9">>

\* Number(token) of a token of digits (Number('') is 0)
RECURSIVE NumberOf(_)
NumberOf(token) ==
    IF token = << >> THEN 0
    ELSE 10 * NumberOf(SubSeq(token, 1, Len(token) - 1))
         + (CHOOSE k \in 1..10 : Digits[k] = token[Len(token)]) - 1

\* parseTerm(token); for tokens made of letters, digits and operator
\* characters !isNaN(Number(token)) is: digits only
ParseTerm(token) ==
    IF token # UndefinedToken /\ \A i \in 1..Len(token) : \E k \in 1..10 : Digits[k] = token[i]
    THEN NumberExpression(Num(NumberOf(token)))
    ELSE VariableExpression(token)

\* the loop of parseMultiplyDivide: left is the tree built so far
RECURSIVE MultiplyDivideLoop(_, _)
MultiplyDivideLoop(left, tokens) ==
    IF tokens # << >> /\ (tokens[1] = <<"*">> \/ tokens[1] = <<"/">>)
    THEN LET operator == tokens[1]
             next == Shift(Tail(tokens))
             right == ParseTerm(next.token)
         IN  MultiplyDivideLoop(BinaryExpression(IF operator = <<"*">> THEN "Multiply" ELSE "Divide",
                                                 left, right),
                                next.rest)
    ELSE [tree |-> left, rest |-> tokens]

\* a parseMultiplyDivide that stops after its first term
ParseMultiplyDivideTermOnly(tokens) ==
    LET first == Shift(tokens)
    IN  [tree |-> ParseTerm(first.token), rest |-> first.rest]
ParseMultiplyDivide(tokens) ==
    LET first == Shift(tokens)
    IN  MultiplyDivideLoop(ParseTerm(first.token), first.rest)

\* the loop of parseAddSubtract: each operand is a whole product
\* a loop that groups to the right: the right operand is all that follows
RECURSIVE AddSubtractLoopRightFirst(_, _)
AddSubtractLoopRightFirst(left, tokens) ==
    IF tokens # << >> /\ (tokens[1] = <<"+">> \/ tokens[1] = <<"-">>)
    THEN LET operator == tokens[1]
             right == ParseMultiplyDivide(Tail(tokens))
             following == AddSubtractLoopRightFirst(right.tree, right.rest)
         IN  [tree |-> BinaryExpression(IF operator = <<"+">> THEN "Add" ELSE "Subtract",
                                        left, following.tree),
              rest |-> following.rest]
    ELSE [tree |-> left, rest |-> tokens]
RECURSIVE AddSubtractLoop(_, _)
AddSubtractLoop(left, tokens) ==
    IF tokens # << >> /\ (tokens[1] = <<"+">> \/ tokens[1] = <<"-">>)
    THEN LET operator == tokens[1]
             right == ParseMultiplyDivide(Tail(tokens))
         IN  AddSubtractLoop(BinaryExpression(IF operator = <<"+">> THEN "Add" ELSE "Subtract",
                                              left, right.tree),
                             right.rest)
    ELSE [tree |-> left, rest |-> tokens]

ParseAddSubtract(tokens) ==
    LET first == ParseMultiplyDivide(tokens)
    IN  AddSubtractLoop(first.tree, first.rest)

\* ExpressionParser.parse(expression) with parseExpression(tokens): what is
\* left of the tokens when parseAddSubtract returns is not looked at
Parse(e) ==
    LET tokens == Tokenize(e)
    IN  IF Len(tokens) = 0
        THEN [type |-> "throw", message |-> "Empty expression"]
        ELSE ParseAddSubtract(tokens).tree

\* ------------------------------------------------------------ boolean expressions
\* BooleanContext.getVariable(name)
GetVariable(ctx, name) ==
    IF name \in DOMAIN ctx
    THEN Returned(ctx[name])
    ELSE Thrown("Boolean variable not defined", name)

\* left.interpret(context) && right.interpret(context): the right operand is
\* evaluated only when the left one returned true
InterpretAndBothEvaluated(l, r) ==
    IF l.kind = "throw" THEN l
    ELSE IF r.kind = "throw" THEN r
    ELSE Returned(l.value /\ r.value)
InterpretAnd(l, r) ==
    IF l.kind = "throw" THEN l
    ELSE IF ~l.value THEN l
    ELSE r

\* left.interpret(context) || right.interpret(context): the right operand is
\* evaluated only when the left one returned false
InterpretOr(l, r) ==
    IF l.kind = "throw" THEN l
    ELSE IF l.value THEN l
    ELSE r

RECURSIVE BooleanInterpret(_, _)
BooleanInterpret(t, ctx) ==
    CASE t.type = "BooleanVariable" -> GetVariable(ctx, t.name)
      [] t.type = "BooleanConstant" -> Returned(t.value)
      [] t.type = "And" -> InterpretAnd(BooleanInterpret(t.left, ctx), BooleanInterpret(t.right, ctx))
      [] t.type = "Or" -> InterpretOr(BooleanInterpret(t.left, ctx), BooleanInterpret(t.right, ctx))
      [] t.type = "Not" ->
            LET v == BooleanInterpret(t.expression, ctx)
            IN  IF v.kind = "throw" THEN v ELSE Returned(~v.value)

\* toString() of the boolean node classes
RECURSIVE BooleanToString(_)
BooleanToString(t) ==
    CASE t.type = "BooleanVariable" -> t.name
      [] t.type = "BooleanConstant" ->
            IF t.value THEN <<"t", "r", "u", "e">> ELSE <<"f", "a", "l", "s", "e">>
      [] t.type = "And" ->
            <<"(">> \o BooleanToString(t.left) \o <<" ", "A", "N", "D", " ">>
                   \o BooleanToString(t.right) \o <<")">>
      [] t.type = "Or" ->
            <<"(">> \o BooleanToString(t.left) \o <<" ", "O", "R", " ">>
                   \o BooleanToString(t.right) \o <<")">>
      [] t.type = "Not" -> <<"N", "O", "T", " ">> \o BooleanToString(t.expression)

\* ------------------------------------------------------------ BooleanExpressionParser
Letters ==
    [lower |-> <<"a", "b", "c", "d", "e", "f", "g", "h", "i", "j", "k", "l", "m", "n", "o", "p", "q", "r", "s", "t", "u", "v", "w", "x", "y", "z">>,
     upper |-> <<"A", "B", "C", "D", "E", "F", "G", "H", "I", "J", "K", "L", "M", "N", "O", "P", "Q", "R", "S", "T", "U", "V", "W", "X", "Y", "Z">>]

\* String.prototype.toUpperCase / toLowerCase
ToUpperCase(s) ==
    [i \in 1..Len(s) |->
        IF \E k \in 1..26 : Letters.lower[k] = s[i]
        THEN Letters.upper[CHOOSE k \in 1..26 : Letters.lower[k] = s[i]]
        ELSE s[i]]
ToLowerCase(s) ==
    [i \in 1..Len(s) |->
        IF \E k \in 1..26 : Letters.upper[k] = s[i]
        THEN Letters.lower[CHOOSE k \in 1..26 : Letters.upper[k] = s[i]]
        ELSE s[i]]

\* String.prototype.substring(start, end): both are clamped to [0, length]
\* and swapped when start > end
Substring(s, start, end) ==
    LET a == Min(Max(start, 0), Len(s))
        b == Min(Max(end, 0), Len(s))
    IN  SubSeq(s, Min(a, b) + 1, Max(a, b))

StartsWith(s, prefix) == Len(s) >= Len(prefix) /\ SubSeq(s, 1, Len(prefix)) = prefix
EndsWith(s, suffix) ==
    Len(s) >= Len(suffix) /\ SubSeq(s, Len(s) - Len(suffix) + 1, Len(s)) = suffix

\* the loop of isCompletelyWrapped from index i on
RECURSIVE WrappedFrom(_, _, _)
WrappedFrom(e, i, count) ==
    IF i < Len(e) - 1
    THEN LET c == IF e[i + 1] = "(" THEN count + 1
                  ELSE IF e[i + 1] = ")" THEN count - 1
                  ELSE count
         IN  IF c = 0 THEN FALSE ELSE WrappedFrom(e, i + 1, c)
    ELSE count = 1

IsCompletelyWrapped(e) ==
    IF ~StartsWith(e, <<"(">>) \/ ~EndsWith(e, <<")">>) THEN FALSE ELSE WrappedFrom(e, 0, 0)

\* the loop of findTopLevelOperator from index i on
RECURSIVE FindFrom(_, _, _, _)
FindFrom(e, operator, i, parenthesesCount) ==
    IF i <= Len(e) - Len(operator)
    THEN IF e[i + 1] = "(" THEN FindFrom(e, operator, i + 1, parenthesesCount + 1)
         ELSE IF e[i + 1] = ")" THEN FindFrom(e, operator, i + 1, parenthesesCount - 1)
         ELSE IF parenthesesCount = 0 /\ Substring(e, i, i + Len(operator)) = operator THEN i
         ELSE FindFrom(e, operator, i + 1, parenthesesCount)
    ELSE -1

\* a search that takes the first occurrence at any depth of parentheses
FindTopLevelOperatorAnyDepth(e, operator) ==
    LET found == {i \in 0..(Len(e) - Len(operator)) : Substring(e, i, i + Len(operator)) = operator}
    IN  IF found = {} THEN -1 ELSE CHOOSE i \in found : \A j \in found : i <= j
FindTopLevelOperator(e, operator) == FindFrom(e, operator, 0, 0)

\* the binary operator parse splits at: the first top-level ' OR ' when there
\* is one, else the first top-level ' AND '
SplitPointAndFirst(e) ==
    LET orIndex == FindTopLevelOperator(e, <<" ", "O", "R", " ">>)
        andIndex == FindTopLevelOperator(e, <<" ", "A", "N", "D", " ">>)
    IN  IF andIndex # -1 THEN [type |-> "And", index |-> andIndex, width |-> 5]
        ELSE IF orIndex # -1 THEN [type |-> "Or", index |-> orIndex, width |-> 4]
        ELSE [type |-> "none", index |-> -1, width |-> 0]
SplitPoint(e) ==
    LET orIndex == FindTopLevelOperator(e, <<" ", "O", "R", " ">>)
        andIndex == FindTopLevelOperator(e, <<" ", "A", "N", "D", " ">>)
    IN  IF orIndex # -1 THEN [type |-> "Or", index |-> orIndex, width |-> 4]
        ELSE IF andIndex # -1 THEN [type |-> "And", index |-> andIndex, width |-> 5]
        ELSE [type |-> "none", index |-> -1, width |-> 0]

\* BooleanExpressionParser.parse(expression)
RECURSIVE BooleanParse(_)
BooleanParse(text) ==
    LET e == ToUpperCase(Trim(text))
        split == SplitPoint(e)
    IN  IF e = <<"T", "R", "U", "E">> THEN BooleanConstantExpression(TRUE)
        ELSE IF e = <<"F", "A", "L", "S", "E">> THEN BooleanConstantExpression(FALSE)
        ELSE IF StartsWith(e, <<"N", "O", "T", " ">>)
        THEN NotExpression(BooleanParse(Substring(e, 4, Len(e))))
        ELSE IF split.type # "none"
        THEN BinaryExpression(split.type,
                              BooleanParse(Substring(e, 0, split.index)),
                              BooleanParse(Substring(e, split.index + split.width, Len(e))))
        ELSE IF StartsWith(e, <<"(">>) /\ EndsWith(e, <<")">>) /\ IsCompletelyWrapped(e)
        THEN BooleanParse(Substring(e, 1, Len(e) - 1))
        ELSE BooleanVariableExpression(ToLowerCase(e))

\* ------------------------------------------------------------ interpreters in use
\* new Context() or new BooleanContext(), and a parser
InitInterpreter ==
    /\ InterpreterIdle
    /\ RemoteIdle
    /\ ApprovalIdle
    /\ DocumentAlone
    /\ CaretakerIdle
    /\ GameIdle
    /\ op = "constructor"
    /\ ret = "void"
    /\ arg = NoArg

\* the texts given to ExpressionParser.parse
ArithmeticTexts ==
    [sum |-> <<"a", " ", "+", " ", "5">>,
     sumProduct |-> <<"a", " ", "+", " ", "b", " ", "*", " ", "c">>,
     sumProductTight |-> <<"a", "+", "b", "*", "c">>,
     productSum |-> <<"a", " ", "*", " ", "b", " ", "+", " ", "c">>,
     groups |-> <<"(", "a", " ", "+", " ", "b", ")", " ", "/", " ", "(", "c", " ", "-", " ", "2", ")">>,
     differences |-> <<"a", " ", "-", " ", "b", " ", "-", " ", "c">>,
     quotients |-> <<"a", " ", "/", " ", "b", " ", "/", " ", "c">>,
     empty |-> << >>,
     blank |-> <<" ", " ">>,
     dangling |-> <<"a", " ", "+">>,
     juxtaposed |-> <<"a", " ", "b">>]

ParsedTexts == [k \in DOMAIN ArithmeticTexts |-> Parse(ArithmeticTexts[k])]

\* the variables and the values client code binds them to
Variables == {<<"a">>, <<"b">>, <<"c">>}
Values == {0, 2, 5, 7, 10}

\* the trees client code builds with the constructors
Operands ==
    {Var("a"), Var("b"), NumberExpression(Num(0)), NumberExpression(Num(2)),
     BinaryExpression("Subtract", Var("a"), Var("a")), BinaryExpression("Add", Var("a"), Var("b"))}

BuiltTrees ==
    {BinaryExpression("Divide", x, y) : x \in Operands, y \in Operands}
    \cup {BinaryExpression(type, Var("a"), Var("b")) : type \in {"Add", "Subtract", "Multiply"}}

\* context.setValue(variable, value)
SetValue ==
    \E variable \in Variables, value \in Values :
        /\ context' = MapSet(context, variable, Num(value))
        /\ result' = NoResult
        /\ op' = "Context.setValue"
        /\ ret' = "void"
        /\ arg' = NoArg
        /\ UNCHANGED <<expression, tree>>
        /\ UNCHANGED <<docVars, caretakerVars, gameVars, remoteVars, approvalVars>>

\* tree = parser.parse(text)
ArithmeticParse ==
    \E k \in DOMAIN ArithmeticTexts :
        LET parsed == ParsedTexts[k]
        IN  /\ expression' = [parsed |-> TRUE, text |-> ArithmeticTexts[k]]
            /\ tree' = (IF parsed.type = "throw" THEN NoTree ELSE parsed)
            /\ ret' = (IF parsed.type = "throw" THEN "throw: Empty expression" ELSE "tree")
            /\ result' = NoResult
            /\ op' = "ExpressionParser.parse"
            /\ arg' = NoArg
            /\ UNCHANGED context
            /\ UNCHANGED <<docVars, caretakerVars, gameVars, remoteVars, approvalVars>>

\* tree = new ...Expression(left, right)
ArithmeticBuild ==
    \E t \in BuiltTrees :
        /\ expression' = NoExpression
        /\ tree' = t
        /\ result' = NoResult
        /\ op' = "new"
        /\ ret' = "tree"
        /\ arg' = NoArg
        /\ UNCHANGED context
        /\ UNCHANGED <<docVars, caretakerVars, gameVars, remoteVars, approvalVars>>

\* tree.interpret(context)
\* an interpret whose lookups bind the names they find unbound to 0
ArithmeticInterpretBinding ==
    /\ tree # NoTree
    /\ context' = [v \in DOMAIN context \cup {s.name : s \in {n \in Subtrees(tree) : n.type = "Variable"}} |->
                        IF v \in DOMAIN context THEN context[v] ELSE Num(0)]
    /\ result' = Interpret(tree, context')
    /\ op' = "interpret"
    /\ ret' = result'.kind
    /\ arg' = NoArg
    /\ UNCHANGED <<expression, tree>>
    /\ UNCHANGED <<docVars, caretakerVars, gameVars, remoteVars, approvalVars>>
ArithmeticInterpret ==
    /\ tree # NoTree
    /\ result' = Interpret(tree, context)
    /\ op' = "interpret"
    /\ ret' = result'.kind
    /\ arg' = NoArg
    /\ UNCHANGED <<expression, context, tree>>
    /\ UNCHANGED <<docVars, caretakerVars, gameVars, remoteVars, approvalVars>>

\* the texts given to BooleanExpressionParser.parse
BooleanTexts ==
    [and |-> <<"x", " ", "A", "N", "D", " ", "y">>,
     or |-> <<"x", " ", "O", "R", " ", "y">>,
     not |-> <<"N", "O", "T", " ", "y">>,
     notAnd |-> <<"N", "O", "T", " ", "p", " ", "A", "N", "D", " ", "q">>,
     notOr |-> <<"N", "O", "T", " ", "p", " ", "O", "R", " ", "q">>,
     orAnd |-> <<"p", " ", "O", "R", " ", "q", " ", "A", "N", "D", " ", "r">>,
     andOr |-> <<"p", " ", "A", "N", "D", " ", "q", " ", "O", "R", " ", "r">>,
     andGroup |-> <<"x", " ", "A", "N", "D", " ", "(", "y", " ", "O", "R", " ", "z", ")">>,
     groupOrGroup |-> <<"(", "x", " ", "A", "N", "D", " ", "y", ")", " ", "O", "R", " ", "(", "N", "O", "T", " ", "z", ")">>,
     lowerCase |-> <<"p", " ", "a", "n", "d", " ", "t", "r", "u", "e">>]

ParsedBooleanTexts == [k \in DOMAIN BooleanTexts |-> BooleanParse(BooleanTexts[k])]

\* the variables client code binds
BooleanVariables == {<<"p">>, <<"q">>, <<"r">>, <<"x">>, <<"y">>, <<"z">>}

\* the trees client code builds with the constructors
BooleanOperands == {BooleanConstantExpression(FALSE), BoolVar("p"), BoolVar("q")}

BuiltBooleanTrees ==
    {BinaryExpression(type, l, r) : type \in {"And", "Or"}, l \in BooleanOperands, r \in BooleanOperands}
    \cup {BinaryExpression("And", NotExpression(BoolVar("p")), BoolVar("q")),
          BinaryExpression("Or", BoolVar("p"), NotExpression(BoolVar("q")))}

\* context.setVariable(name, value)
SetVariable ==
    \E name \in BooleanVariables, value \in BOOLEAN :
        /\ context' = MapSet(context, name, value)
        /\ result' = NoResult
        /\ op' = "BooleanContext.setVariable"
        /\ ret' = "void"
        /\ arg' = NoArg
        /\ UNCHANGED <<expression, tree>>
        /\ UNCHANGED <<docVars, caretakerVars, gameVars, remoteVars, approvalVars>>

\* tree = parser.parse(text)
BooleanParseText ==
    \E k \in DOMAIN BooleanTexts :
        /\ expression' = [parsed |-> TRUE, text |-> BooleanTexts[k]]
        /\ tree' = ParsedBooleanTexts[k]
        /\ result' = NoResult
        /\ op' = "BooleanExpressionParser.parse"
        /\ ret' = "tree"
        /\ arg' = NoArg
        /\ UNCHANGED context
        /\ UNCHANGED <<docVars, caretakerVars, gameVars, remoteVars, approvalVars>>

\* tree = new AndExpression(left, right) / new OrExpression(left, right)
BooleanBuild ==
    \E t \in BuiltBooleanTrees :
        /\ expression' = NoExpression
        /\ tree' = t
        /\ result' = NoResult
        /\ op' = "new"
        /\ ret' = "tree"
        /\ arg' = NoArg
        /\ UNCHANGED context
        /\ UNCHANGED <<docVars, caretakerVars, gameVars, remoteVars, approvalVars>>

\* what the built trees print as, and what parse makes of that
TextsOfBuiltTrees == [t \in BuiltBooleanTrees |-> BooleanToString(t)]
ReparsedBooleanTrees == [t \in BuiltBooleanTrees |-> BooleanParse(TextsOfBuiltTrees[t])]

\* tree = parser.parse(tree.toString()), for a tree built with the constructors
BooleanReparse ==
    /\ expression = NoExpression
    /\ tree \in BuiltBooleanTrees
    /\ expression' = [parsed |-> TRUE, text |-> TextsOfBuiltTrees[tree]]
    /\ tree' = ReparsedBooleanTrees[tree]
    /\ result' = NoResult
    /\ op' = "toString, BooleanExpressionParser.parse"
    /\ ret' = "tree"
    /\ arg' = NoArg
    /\ UNCHANGED context
    /\ UNCHANGED <<docVars, caretakerVars, gameVars, remoteVars, approvalVars>>

\* tree.interpret(context)
BooleanInterpretTree ==
    /\ tree # NoTree
    /\ result' = BooleanInterpret(tree, context)
    /\ op' = "interpret"
    /\ ret' = result'.kind
    /\ arg' = NoArg
    /\ UNCHANGED <<expression, context, tree>>
    /\ UNCHANGED <<docVars, caretakerVars, gameVars, remoteVars, approvalVars>>

\* ------------------------------------------------------------ Command: Light, Fan, RemoteControl
\* (src/src/behavioral/Visitor/Visitor.ts, lines 337 to 493)
\* The receivers are taken together as [light, fan]; a command is a record
\* naming its class, a FanCommand with its speed, a MacroCommand with its
\* commands.
LightOnCommand == [type |-> "LightOn"]
LightOffCommand == [type |-> "LightOff"]
FanCommand(speed) == [type |-> "Fan", speed |-> speed]
MacroCommand(cs) == [type |-> "Macro", commands |-> cs]

\* Fan.setSpeed(speed)
SetSpeed(f, speed) == [speed |-> speed, prevSpeed |-> f.speed]

\* command.execute(); a MacroCommand executes its commands in order
RECURSIVE Execute(_, _)
Execute(c, r) ==
    CASE c.type = "LightOn" -> [r EXCEPT !.light = TRUE]
      [] c.type = "LightOff" -> [r EXCEPT !.light = FALSE]
      [] c.type = "Fan" -> [r EXCEPT !.fan = SetSpeed(r.fan, c.speed)]
      [] c.type = "Macro" ->
            IF c.commands = << >> THEN r
            ELSE Execute(MacroCommand(Tail(c.commands)), Execute(Head(c.commands), r))

\* command.undo(); a MacroCommand undoes its commands in reverse order
RECURSIVE UndoCommand(_, _)
UndoCommand(c, r) ==
    CASE c.type = "LightOn" -> [r EXCEPT !.light = FALSE]
      [] c.type = "LightOff" -> [r EXCEPT !.light = TRUE]
      [] c.type = "Fan" -> [r EXCEPT !.fan = SetSpeed(r.fan, r.fan.prevSpeed)]
      [] c.type = "Macro" ->
            IF c.commands = << >> THEN r
            ELSE UndoCommand(MacroCommand(SubSeq(c.commands, 1, Len(c.commands) - 1)),
                             UndoCommand(c.commands[Len(c.commands)], r))

\* the commands client code creates and adds to the remote, in this order
Catalogue ==
    <<LightOnCommand, LightOffCommand, FanCommand(1), FanCommand(2),
      MacroCommand(<<LightOnCommand, FanCommand(3)>>)>>

\* the speeds of a fan: 0 off, 1 low, 2 medium, 3 high
Speeds == 0..3

\* new RemoteControl(), with a Light and a Fan client code has used before:
\* setSpeed calls leave any pair of speeds behind
InitRemote ==
    /\ light \in BOOLEAN
    /\ fan \in [speed : Speeds, prevSpeed : Speeds]
    /\ commands = << >>
    /\ history = << >>
    /\ before = << >>
    /\ DocumentAlone
    /\ CaretakerIdle
    /\ GameIdle
    /\ InterpreterIdle
    /\ ApprovalIdle
    /\ op = "constructor"
    /\ ret = "void"
    /\ arg = NoArg

\* remote.addCommand(command)
AddCommand ==
    /\ Len(commands) < Len(Catalogue)
    /\ commands' = Append(commands, Catalogue[Len(commands) + 1])
    /\ op' = "addCommand"
    /\ ret' = "void"
    /\ arg' = NoArg
    /\ UNCHANGED <<light, fan, history, before>>
    /\ UNCHANGED <<docVars, caretakerVars, gameVars, interpVars, approvalVars>>

\* remote.executeCommand(index)
ExecuteCommand ==
    \E index \in -1..Len(commands) :
        /\ Len(history) < MaxExecuted
        /\ IF index >= 0 /\ index < Len(commands)
           THEN LET r == Execute(commands[index + 1], [light |-> light, fan |-> fan])
                IN  /\ light' = r.light
                    /\ fan' = r.fan
                    /\ history' = Append(history, commands[index + 1])
                    /\ before' = Append(before, [light |-> light, fan |-> fan])
           ELSE UNCHANGED <<light, fan, history, before>>
        /\ op' = "executeCommand"
        /\ ret' = "void"
        /\ arg' = index
        /\ UNCHANGED commands
        /\ UNCHANGED <<docVars, caretakerVars, gameVars, interpVars, approvalVars>>

\* remote.undoLastCommand()
UndoLastCommand ==
    /\ IF history # << >>
       THEN LET r == UndoCommand(history[Len(history)], [light |-> light, fan |-> fan])
            IN  /\ light' = r.light
                /\ fan' = r.fan
                /\ history' = SubSeq(history, 1, Len(history) - 1)
                /\ before' = SubSeq(before, 1, Len(before) - 1)
       ELSE UNCHANGED <<light, fan, history, before>>
    /\ op' = "undoLastCommand"
    /\ ret' = "void"
    /\ arg' = NoArg
    /\ UNCHANGED commands
    /\ UNCHANGED <<docVars, caretakerVars, gameVars, interpVars, approvalVars>>

\* ------------------------------------------------------------ State: Document approval
\* (src/src/behavioral/State/State.spec.ts, lines 266 to 496)
\* The state object of a Document is named by its DocumentStatus.  What a
\* state class does with a request: nothing, document.setState(new ...), or
\* throw an Error.
Stay == [kind |-> "stay", status |-> "none", message |-> "none"]
SetStateTo(to) == [kind |-> "setState", status |-> to, message |-> "none"]
Throws(message) == [kind |-> "throw", status |-> "none", message |-> message]

\* a DraftState whose publish() publishes
DraftStatePublishing(request) ==
    CASE request = "draft" -> Stay
      [] request = "moderate" -> SetStateTo("Moderation")
      [] request = "publish" -> SetStateTo("Published")
      [] request = "reject" -> Throws("Cannot reject a Draft state document")
      [] request = "archive" -> SetStateTo("Archived")
DraftState(request) ==
    CASE request = "draft" -> Stay
      [] request = "moderate" -> SetStateTo("Moderation")
      [] request = "publish" -> Throws("Cannot publish directly from Draft state")
      [] request = "reject" -> Throws("Cannot reject a Draft state document")
      [] request = "archive" -> SetStateTo("Archived")

ModerationState(request) ==
    CASE request = "draft" -> SetStateTo("Draft")
      [] request = "moderate" -> Stay
      [] request = "publish" -> SetStateTo("Published")
      [] request = "reject" -> SetStateTo("Rejected")
      [] request = "archive" -> SetStateTo("Archived")

PublishedState(request) ==
    CASE request = "draft" -> SetStateTo("Draft")
      [] request = "moderate" -> SetStateTo("Moderation")
      [] request = "publish" -> Stay
      [] request = "reject" -> Throws("Cannot reject a Published state document")
      [] request = "archive" -> SetStateTo("Archived")

RejectedState(request) ==
    CASE request = "draft" -> SetStateTo("Draft")
      [] request = "moderate" -> Throws("Rejected document must be drafted first")
      [] request = "publish" -> Throws("Cannot publish a Rejected state document")
      [] request = "reject" -> Stay
      [] request = "archive" -> SetStateTo("Archived")

ArchivedState(request) ==
    CASE request = "draft" -> SetStateTo("Draft")
      [] request = "moderate" -> Throws("Cannot moderate an Archived state document")
      [] request = "publish" -> Throws("Cannot publish an Archived state document")
      [] request = "reject" -> Throws("Cannot reject an Archived state document")
      [] request = "archive" -> Stay

\* this.state.<request>(this): the call goes to the class of the state object
StateRequest(current, request) ==
    CASE current = "Draft" -> DraftState(request)
      [] current = "Moderation" -> ModerationState(request)
      [] current = "Published" -> PublishedState(request)
      [] current = "Rejected" -> RejectedState(request)
      [] current = "Archived" -> ArchivedState(request)

\* new Document()
InitApproval ==
    /\ status = "Draft"
    /\ content = << >>
    /\ entries = <<<<"Document created in state", "Draft">>>>
    /\ DocumentAlone
    /\ CaretakerIdle
    /\ GameIdle
    /\ InterpreterIdle
    /\ RemoteIdle
    /\ op = "constructor"
    /\ ret = "void"
    /\ arg = NoArg

\* what Document.draft(), moderate(), publish(), reject() and archive() share:
\* the request is written to the history, then handed to the state object;
\* setState writes the change of status to the history
Request(request, entry) ==
    LET outcome == StateRequest(status, request)
        requested == Append(entries, <<entry>>)
    IN  /\ Len(entries) + 2 <= MaxEntries
        /\ IF outcome.kind = "setState"
           THEN /\ entries' = Append(requested, <<"Status changed from, to", status, outcome.status>>)
                /\ status' = outcome.status
           ELSE /\ entries' = requested
                /\ status' = status
        /\ ret' = (IF outcome.kind = "throw" THEN outcome.message ELSE "void")
        /\ arg' = NoArg
        /\ UNCHANGED content
        /\ UNCHANGED <<docVars, caretakerVars, gameVars, interpVars, remoteVars>>

Draft ==
    /\ Request("draft", "Draft action requested")
    /\ op' = "draft"

Moderate ==
    /\ Request("moderate", "Moderation action requested")
    /\ op' = "moderate"

Publish ==
    /\ Request("publish", "Publish action requested")
    /\ op' = "publish"

Reject ==
    /\ Request("reject", "Reject action requested")
    /\ op' = "reject"

Archive ==
    /\ Request("archive", "Archive action requested")
    /\ op' = "archive"

\* the texts client code gives to setContent
Contents == {<<"T", "e", "s", "t">>, << >>}

\* Document.setContent(content)
SetContent ==
    \E text \in Contents :
        /\ Len(entries) + 1 <= MaxEntries
        /\ content' = text
        /\ entries' = Append(entries, <<"Content updated">>)
        /\ op' = "setContent"
        /\ ret' = "void"
        /\ arg' = NoArg
        /\ UNCHANGED status
        /\ UNCHANGED <<docVars, caretakerVars, gameVars, interpVars, remoteVars>>

\* ------------------------------------------------------------ specifications
\* DocumentHistory driving a TextDocument
Next ==
    \/ Type
    \/ Delete
    \/ MoveCursor
    \/ Select
    \/ ApplyFormatting
    \/ SaveState
    \/ Undo
    \/ Redo

Spec == Init /\ [][Next]_vars

\* a TextDocument and client code that keeps what getState() and
\* createMemento() returned
NextAlias ==
    \/ Type
    \/ Delete
    \/ MoveCursor
    \/ Select
    \/ ApplyFormatting
    \/ GetState
    \/ MutateHandleTop
    \/ MutateHandleNested
    \/ ClientCreateMemento
    \/ ClientRestore

SpecAlias == InitAlias /\ [][NextAlias]_vars

\* an Originator, its Caretaker and client code that keeps references
NextCaretaker ==
    \/ SetState
    \/ Backup
    \/ CaretakerUndo
    \/ RestoreToIndex
    \/ RefGetState
    \/ RefMementoGetState
    \/ MutateRef

SpecCaretaker == InitCaretaker /\ [][NextCaretaker]_vars

\* a GameCharacter and its GameCheckpointManager
NextGame ==
    \/ Move
    \/ CreateCheckpoint
    \/ RestoreCheckpoint
    \/ AutoSave
    \/ LoadLastAutoSave
    \/ DeleteCheckpoint
    \/ ClearAllCheckpoints

SpecGame == InitGame /\ [][NextGame]_vars

\* a Context, an ExpressionParser and the trees parsed or built
NextArithmetic ==
    \/ SetValue
    \/ ArithmeticParse
    \/ ArithmeticBuild
    \/ ArithmeticInterpret

SpecArithmetic == InitInterpreter /\ [][NextArithmetic]_vars

\* a BooleanContext, a BooleanExpressionParser and the trees parsed or built
NextBoolean ==
    \/ SetVariable
    \/ BooleanParseText
    \/ BooleanBuild
    \/ BooleanReparse
    \/ BooleanInterpretTree

SpecBoolean == InitInterpreter /\ [][NextBoolean]_vars

\* a RemoteControl with a Light and a Fan
NextRemote ==
    \/ AddCommand
    \/ ExecuteCommand
    \/ UndoLastCommand

SpecRemote == InitRemote /\ [][NextRemote]_vars

\* a Document of the approval system
NextApproval ==
    \/ Draft
    \/ Moderate
    \/ Publish
    \/ Reject
    \/ Archive
    \/ SetContent

SpecApproval == InitApproval /\ [][NextApproval]_vars

\* client code that uses one of the two interpreters: what was done so far
\* tells which (the node classes of the two are disjoint)
ArithmeticSession ==
    \/ op \in {"constructor", "Context.setValue", "ExpressionParser.parse"}
    \/ tree.type \in {"Variable", "Number", "Add", "Subtract", "Multiply", "Divide"}

BooleanSession ==
    \/ op \in {"constructor", "BooleanContext.setVariable", "BooleanExpressionParser.parse"}
    \/ tree.type \in {"BooleanVariable", "BooleanConstant", "And", "Or", "Not"}

NextInterpreter ==
    \/ ArithmeticSession /\ SetValue
    \/ ArithmeticSession /\ ArithmeticParse
    \/ ArithmeticSession /\ ArithmeticBuild
    \/ ArithmeticSession /\ ArithmeticInterpret
    \/ BooleanSession /\ SetVariable
    \/ BooleanSession /\ BooleanParseText
    \/ BooleanSession /\ BooleanBuild
    \/ BooleanSession /\ BooleanReparse
    \/ BooleanSession /\ BooleanInterpretTree

SpecInterpreter == InitInterpreter /\ [][NextInterpreter]_vars

\* ------------------------------------------------------------ properties
\* what saveState() has to leave behind, given the state it was called in
SavedOver(ms, idx, doc) == Append(SubSeq(ms, 1, idx + 1), JsonDocState(doc))

SaveStateDiscards ==
    LET full == SavedOver(mementos, currentIndex, DocValue)
    IN  /\ mementos' = full \/ mementos' = Tail(full)
        /\ Len(mementos') >= 1
        /\ mementos'[Len(mementos')] = JsonDocState(DocValue)
        /\ currentIndex' = Len(mementos') - 1
        /\ ~(currentIndex' < Len(mementos') - 1)

\* C1 as stated: after every saveState() the entries after the cursor are gone,
\* the entries [0, old cursor] are kept in order (minus at most the evicted
\* oldest one), the snapshot of the current document is the last entry, the
\* cursor is the last index and canRedo() is false.
C1_SaveStateDiscardsForward_Any ==
    [][op' = "saveState" => SaveStateDiscards]_vars

\* C1 (amended): the same, for every maxHistorySize >= 1.
C1_SaveStateDiscardsForward ==
    [][op' = "saveState" /\ maxHistorySize >= 1 => SaveStateDiscards]_vars

\* a saveState() that removed forward history and left the new snapshot last
C1_Witness ==
    /\ op = "saveState"
    /\ saveInfo.discarded >= 1
    /\ maxHistorySize >= 1
    /\ currentIndex = Len(mementos) - 1
    /\ mementos[Len(mementos)] = JsonDocState(DocValue)

\* C2 as stated: after saveState(), an edit, saveState(), undo() restores
\* exactly the document state of the first saveState() and a following redo()
\* exactly the state of the second one.
C2_UndoRedoLaw_Exact ==
    /\ law.phase = 4 => DocValue = law.pre
    /\ law.phase = 5 => DocValue = law.post

\* C2 (amended): for maxHistorySize >= 2, after saveState(), an edit,
\* saveState(), undo() restores the JSON round trip of the document state of
\* the first saveState() and a following redo() the JSON round trip of the
\* state of the second one.
C2_UndoRedoLaw ==
    maxHistorySize >= 2 =>
        /\ law.phase = 4 => DocValue = JsonDocState(law.pre)
        /\ law.phase = 5 => DocValue = JsonDocState(law.post)

\* the scenario ran to its end and the edit changed the document
C2_Witness ==
    /\ law.phase = 5
    /\ maxHistorySize >= 2
    /\ law.pre # law.post
    /\ op = "redo"
    /\ ret = "true"

\* C5: undo() returns true exactly when cursor > 0 before the call, redo()
\* exactly when cursor < length - 1; on true the cursor moves by one and the
\* document state equals the snapshot at the new cursor, on false cursor,
\* snapshots and document are unchanged.
C5_UndoRedoResult ==
    [][/\ op' = "undo" =>
            /\ ret' = (IF currentIndex > 0 THEN "true" ELSE "false")
            /\ mementos' = mementos
            /\ IF currentIndex > 0
               THEN /\ currentIndex' = currentIndex - 1
                    /\ DocValue' = MementoGetState(mementos[currentIndex' + 1])
               ELSE /\ currentIndex' = currentIndex
                    /\ DocValue' = DocValue
       /\ op' = "redo" =>
            /\ ret' = (IF currentIndex < Len(mementos) - 1 THEN "true" ELSE "false")
            /\ mementos' = mementos
            /\ IF currentIndex < Len(mementos) - 1
               THEN /\ currentIndex' = currentIndex + 1
                    /\ DocValue' = MementoGetState(mementos[currentIndex' + 1])
               ELSE /\ currentIndex' = currentIndex
                    /\ DocValue' = DocValue
      ]_vars

\* an undo() that moved the cursor to a snapshot other than the document's state before it
C5_Witness ==
    /\ op = "undo"
    /\ ret = "true"
    /\ currentIndex < Len(mementos) - 1
    /\ mementos[currentIndex + 1] # mementos[currentIndex + 2]
    /\ DocValue = mementos[currentIndex + 1]

\* C6: the cursor is a valid index whenever the history holds a snapshot,
\* and -1 whenever the history is empty, for any maxHistorySize.
C6_CursorInvariant ==
    IF Len(mementos) > 0
    THEN 0 <= currentIndex /\ currentIndex < Len(mementos)
    ELSE currentIndex = -1

\* a saveState() that evicted the oldest entry of a non-empty history and
\* an undo() back to the oldest entry that is left
C6_Witness ==
    /\ op = "undo"
    /\ ret = "true"
    /\ currentIndex = 0
    /\ maxHistorySize >= 2
    /\ Len(mementos) = maxHistorySize

\* C7: for maxHistorySize >= 1 the number of snapshots never exceeds
\* maxHistorySize; a saveState() that would exceed it evicts exactly the oldest
\* snapshot, decrements the cursor, and the cursor points at the new snapshot.
C7_MaxHistory ==
    /\ [](maxHistorySize >= 1 => Len(mementos) <= maxHistorySize)
    /\ [][op' = "saveState" /\ maxHistorySize >= 1
            /\ Len(SavedOver(mementos, currentIndex, DocValue)) > maxHistorySize
          => /\ mementos' = Tail(SavedOver(mementos, currentIndex, DocValue))
             /\ currentIndex' = Len(SavedOver(mementos, currentIndex, DocValue)) - 1 - 1
             /\ mementos'[currentIndex' + 1] = JsonDocState(DocValue)]_vars

\* a saveState() on a full history: the oldest entry left, the new one is last
C7_Witness ==
    /\ op = "saveState"
    /\ saveInfo.evicted
    /\ maxHistorySize >= 2
    /\ Len(mementos) = maxHistorySize
    /\ mementos[1] # mementos[Len(mementos)]

\* C3 as stated, for TextDocument: a write into the object getState()
\* returned, at any depth, never changes the state the document yields.
C3_GetStateIsolation ==
    [][op' = "mutateReturned" => DocValue' = DocValue]_vars

\* C4: every stored memento still yields the state value it yielded when it
\* was created, whatever was done to the live state since (setState, restore,
\* undo, writes through references the client holds, further saves).
C4_SnapshotNeverChanges ==
    /\ Len(captured) = Len(ctMementos)
    /\ \A i \in 1..Len(ctMementos) : MementoState(heap, ctMementos[i]) = captured[i]

\* the live state object was written in place after a save and differs from
\* every stored snapshot
C4_Witness ==
    /\ op = "mutateReturned"
    /\ ref.src = "ctor"
    /\ ref.addr = originatorState
    /\ Len(ctMementos) >= 1
    /\ \A i \in 1..Len(ctMementos) : captured[i] # OriginatorValue

\* C8: Caretaker.undo() whose restore does not fail: with no snapshot nothing
\* changes; with one it restores the originator to it and keeps it; with
\* n > 1 it removes the most recent one and restores the originator to the new
\* most recent; a non-empty sequence never becomes empty.
C8_CaretakerUndoPolicy ==
    [][op' = "Caretaker.undo" /\ ~restoreFailed' =>
          LET n == Len(ctMementos)
          IN  /\ n = 0 => /\ ctMementos' = ctMementos
                          /\ originatorState' = originatorState
                          /\ OriginatorValue' = OriginatorValue
              /\ n = 1 => /\ ctMementos' = ctMementos
                          /\ OriginatorValue' = MementoState(heap, ctMementos[1])
              /\ n > 1 => /\ ctMementos' = SubSeq(ctMementos, 1, n - 1)
                          /\ OriginatorValue' = MementoState(heap, ctMementos[n - 1])
              /\ n >= 1 => Len(ctMementos') >= 1
      ]_vars

\* an undo() went from several snapshots to fewer and changed the originator
C8_Witness ==
    /\ op = "Caretaker.undo"
    /\ ~restoreFailed
    /\ Len(ctMementos) >= 2
    /\ OriginatorValue = captured[Len(captured)]
    /\ captured[1] # OriginatorValue

\* C9: when the restore fails inside Caretaker.undo() with more than one
\* snapshot, the snapshot sequence after the call equals the one before and
\* the originator's state is unchanged.
C9_FailedUndoPushesBack ==
    [][op' = "Caretaker.undo" /\ restoreFailed' /\ Len(ctMementos) > 1 =>
          /\ ctMementos' = ctMementos
          /\ \A i \in 1..Len(ctMementos) : heap'[ctMementos[i]] = heap[ctMementos[i]]
          /\ originatorState' = originatorState
          /\ OriginatorValue' = OriginatorValue
      ]_vars

\* a failed undo() with several snapshots, the last of which is not the
\* originator's state
C9_Witness ==
    /\ op = "Caretaker.undo"
    /\ restoreFailed
    /\ Len(ctMementos) >= 2
    /\ captured[Len(captured)] # JsonT(OriginatorValue)

\* C10 as stated: a restore failure inside Caretaker.undo() is re-raised or
\* returned as a failure result.
C10_FailureSignalled ==
    op = "Caretaker.undo" /\ restoreFailed => ret # "void"

\* C10 (amended): a restore failure inside Caretaker.undo() is caught and
\* logged with console.error; undo() returns normally and without a value,
\* as it does on success.
C10_FailureOnlyLogged ==
    op = "Caretaker.undo" => /\ ret = "void"
                             /\ errorLogged = restoreFailed

\* a failed undo() on a single snapshot
C10_Witness ==
    /\ op = "Caretaker.undo"
    /\ restoreFailed
    /\ errorLogged
    /\ Len(ctMementos) = 1

\* C11: Caretaker.restoreToIndex(i) never changes the snapshot sequence; for
\* every i outside [0, length) it fails with the invalid-index error and
\* leaves the originator's state unchanged; for every i inside it does not
\* raise that error and, its restore not failing, returns normally with the
\* originator's state set to the state of snapshot i.
C11_RestoreToIndex ==
    [][op' = "Caretaker.restoreToIndex" =>
          LET i == arg'
              n == Len(ctMementos)
          IN  /\ ctMementos' = ctMementos
              /\ \A k \in 1..n : heap'[ctMementos[k]] = heap[ctMementos[k]]
              /\ (i < 0 \/ i >= n) =>
                    /\ ret' = "throw: Invalid memento index"
                    /\ originatorState' = originatorState
                    /\ OriginatorValue' = OriginatorValue
              /\ (0 <= i /\ i < n) =>
                    /\ ret' # "throw: Invalid memento index"
                    /\ ~restoreFailed' =>
                          /\ ret' = "void"
                          /\ OriginatorValue' = MementoState(heap, ctMementos[i + 1])
      ]_vars

\* restoreToIndex(0) with several snapshots brought back the oldest one,
\* which differs from the most recent
C11_Witness ==
    /\ op = "Caretaker.restoreToIndex"
    /\ arg = 0
    /\ ret = "void"
    /\ Len(ctMementos) >= 2
    /\ OriginatorValue = captured[1]
    /\ captured[1] # captured[Len(captured)]

\* the n most recent entries of a capture log, oldest first
MostRecent(log, n) == SubSeq(log, Len(log) - Min(n, Len(log)) + 1, Len(log))

\* C12: with a cap N >= 1 the auto-save list never holds more than N
\* snapshots and always holds exactly the most recent min(N, calls) captured
\* states in capture order (so the N most recent after N + k calls), and
\* loadLastAutoSave() after at least one autoSave() returns true with the
\* character in the state the most recent autoSave() captured.
C12_BoundedAutoSave ==
    /\ [](maxAutoSaves >= 1 =>
            /\ Len(autoSaves) <= maxAutoSaves
            /\ autoSaves = MostRecent(autoLog, maxAutoSaves))
    /\ [][op' = "loadLastAutoSave" /\ maxAutoSaves >= 1 /\ Len(autoLog) >= 1 =>
            /\ ret' = "true"
            /\ character' = autoLog[Len(autoLog)]
            /\ autoSaves' = autoSaves
         ]_vars

\* more autoSave() calls than the cap allows, with different states captured,
\* and loadLastAutoSave() has brought back the last one
C12_Witness ==
    /\ op = "loadLastAutoSave"
    /\ ret = "true"
    /\ maxAutoSaves >= 2
    /\ Len(autoLog) > maxAutoSaves
    /\ autoLog[1] # autoLog[Len(autoLog)]
    /\ autoSaves[1] # autoSaves[Len(autoSaves)]
    /\ character = autoLog[Len(autoLog)]

\* C13: restoreCheckpoint(name) for a name that was never created, or was
\* deleted or cleared since, and loadLastAutoSave() with no auto-save stored,
\* return false without raising and leave the character's state unchanged.
C13_NotFoundLookups ==
    [][/\ op' = "restoreCheckpoint" /\ arg' \notin liveNames =>
            /\ ret' = "false"
            /\ character' = character
       /\ op' = "loadLastAutoSave" /\ Len(autoSaves) = 0 =>
            /\ ret' = "false"
            /\ character' = character
      ]_vars

\* restoreCheckpoint() of a name that is not there returned false while
\* another checkpoint, holding a state other than the character's, exists
C13_Witness ==
    /\ op = "restoreCheckpoint"
    /\ ret = "false"
    /\ arg \notin liveNames
    /\ \E n \in liveNames : checkpoints[n] # CharacterCreateMemento

\* the names are bound in the context
Bound(names) == names \subseteq DOMAIN context

\* a text was parsed and the tree it gave has just been interpreted
Interpreted(text) == op = "interpret" /\ expression = [parsed |-> TRUE, text |-> text]

\* C14: the tree parse('a + b * c') gives evaluates like the hand-built
\* AddExpression(a, MultiplyExpression(b, c)) in every context, and to
\* a + (b * c) when a, b and c are bound (45 for a = 10, b = 5, c = 7).
C14_MultiplicationFirst ==
    Interpreted(ArithmeticTexts.sumProduct) =>
        /\ result = Interpret(BinaryExpression("Add", Var("a"),
                                   BinaryExpression("Multiply", Var("b"), Var("c"))), context)
        /\ Bound(Variables) =>
              result = Returned(Num(context[<<"a">>].num
                                    + context[<<"b">>].num * context[<<"c">>].num))

\* parse('a + b * c') interpreted with a = 10, b = 5, c = 7 gave 45
C14_Witness ==
    /\ Interpreted(ArithmeticTexts.sumProduct)
    /\ Bound(Variables)
    /\ context[<<"a">>] = Num(10)
    /\ context[<<"b">>] = Num(5)
    /\ context[<<"c">>] = Num(7)
    /\ result = Returned(Num(45))

\* C15 as stated: the tree parse('(a + b) / (c - 2)') gives evaluates like the
\* hand-built DivideExpression(AddExpression(a, b), SubtractExpression(c, 2))
\* in every context (3 for a = 10, b = 5, c = 7).
C15_ParenthesisedGroups ==
    Interpreted(ArithmeticTexts.groups) =>
        result = Interpret(BinaryExpression("Divide",
                               BinaryExpression("Add", Var("a"), Var("b")),
                               BinaryExpression("Subtract", Var("c"), NumberExpression(Num(2)))),
                           context)

\* C20: interpreting a DivideExpression whose right operand evaluates to 0
\* fails with the division-by-zero error whatever the left operand is, an
\* unbound variable or a failing division included; it never returns a value.
C20_DivisionByZero ==
    /\ op = "interpret"
    /\ tree.type = "Divide"
    /\ Interpret(tree.right, context) = Returned(Num(0))
    => result = Thrown("Division by zero", << >>)

\* a / b interpreted with b bound to 0 and a unbound failed with the
\* division-by-zero error
C20_Witness ==
    /\ op = "interpret"
    /\ tree = BinaryExpression("Divide", Var("a"), Var("b"))
    /\ <<"a">> \notin DOMAIN context
    /\ <<"b">> \in DOMAIN context
    /\ context[<<"b">>] = Num(0)
    /\ result = Thrown("Division by zero", << >>)

\* C16 as stated: parse('NOT p AND q') evaluates like (NOT p) AND q and
\* parse('NOT p OR q') like (NOT p) OR q, in every context.
C16_NotBindsTightest ==
    /\ Interpreted(BooleanTexts.notAnd) =>
          result = BooleanInterpret(BinaryExpression("And", NotExpression(BoolVar("p")), BoolVar("q")),
                                    context)
    /\ Interpreted(BooleanTexts.notOr) =>
          result = BooleanInterpret(BinaryExpression("Or", NotExpression(BoolVar("p")), BoolVar("q")),
                                    context)

\* C17: parse('p OR q AND r') evaluates like p OR (q AND r) and
\* parse('p AND q OR r') like (p AND q) OR r: like the hand-built trees in
\* every context, and to the truth value of the formula when p, q, r are bound.
C17_OrLooserThanAnd ==
    /\ Interpreted(BooleanTexts.orAnd) =>
          /\ result = BooleanInterpret(BinaryExpression("Or", BoolVar("p"),
                                           BinaryExpression("And", BoolVar("q"), BoolVar("r"))),
                                       context)
          /\ Bound({<<"p">>, <<"q">>, <<"r">>}) =>
                result = Returned(context[<<"p">>] \/ (context[<<"q">>] /\ context[<<"r">>]))
    /\ Interpreted(BooleanTexts.andOr) =>
          /\ result = BooleanInterpret(BinaryExpression("Or",
                                           BinaryExpression("And", BoolVar("p"), BoolVar("q")),
                                           BoolVar("r")),
                                       context)
          /\ Bound({<<"p">>, <<"q">>, <<"r">>}) =>
                result = Returned((context[<<"p">>] /\ context[<<"q">>]) \/ context[<<"r">>])

\* parse('p OR q AND r') interpreted with p true, q true, r false gave true,
\* where (p OR q) AND r is false
C17_Witness ==
    /\ Interpreted(BooleanTexts.orAnd)
    /\ Bound({<<"p">>, <<"q">>, <<"r">>})
    /\ context[<<"p">>] /\ context[<<"q">>] /\ ~context[<<"r">>]
    /\ result = Returned(TRUE)

\* C18: parse('x AND (y OR z)') and parse('(x AND y) OR (NOT z)') evaluate
\* like the hand-built AndExpression(x, OrExpression(y, z)) and
\* OrExpression(AndExpression(x, y), NotExpression(z)) in every context, and
\* to the truth value of the formula when x, y, z are bound (true and false
\* for x = true, y = false, z = true).
C18_ParenthesisedGroups ==
    /\ Interpreted(BooleanTexts.andGroup) =>
          /\ result = BooleanInterpret(BinaryExpression("And", BoolVar("x"),
                                           BinaryExpression("Or", BoolVar("y"), BoolVar("z"))),
                                       context)
          /\ Bound({<<"x">>, <<"y">>, <<"z">>}) =>
                result = Returned(context[<<"x">>] /\ (context[<<"y">>] \/ context[<<"z">>]))
    /\ Interpreted(BooleanTexts.groupOrGroup) =>
          /\ result = BooleanInterpret(BinaryExpression("Or",
                                           BinaryExpression("And", BoolVar("x"), BoolVar("y")),
                                           NotExpression(BoolVar("z"))),
                                       context)
          /\ Bound({<<"x">>, <<"y">>, <<"z">>}) =>
                result = Returned((context[<<"x">>] /\ context[<<"y">>]) \/ ~context[<<"z">>])

\* parse('(x AND y) OR (NOT z)') interpreted with x = true, y = false,
\* z = true gave false
C18_Witness ==
    /\ Interpreted(BooleanTexts.groupOrGroup)
    /\ Bound({<<"x">>, <<"y">>, <<"z">>})
    /\ context[<<"x">>] /\ ~context[<<"y">>] /\ context[<<"z">>]
    /\ result = Returned(FALSE)

\* C19 as stated: interpreting an AndExpression or OrExpression one of whose
\* operands fails with the undefined-variable error fails with that error,
\* whatever the other operand's value.
C19_BothOperandsEvaluated ==
    /\ op = "interpret"
    /\ tree.type \in {"And", "Or"}
    /\ \/ BooleanInterpret(tree.left, context).kind = "throw"
       \/ BooleanInterpret(tree.right, context).kind = "throw"
    => result.kind = "throw"

\* C19 (amended): AndExpression.interpret and OrExpression.interpret evaluate
\* the left operand first and the right one only when the left does not
\* decide the result (false for AND, true for OR): a failing left operand
\* always fails the call; with a deciding left operand the call returns that
\* value even when the right operand references an unbound variable;
\* otherwise the call returns or fails as the right operand does.
C19_ShortCircuit ==
    op = "interpret" /\ tree.type \in {"And", "Or"} =>
        LET l == BooleanInterpret(tree.left, context)
            r == BooleanInterpret(tree.right, context)
            decided == \/ tree.type = "And" /\ l = Returned(FALSE)
                       \/ tree.type = "Or" /\ l = Returned(TRUE)
        IN  /\ l.kind = "throw" => result = l
            /\ decided => result = l
            /\ l.kind # "throw" /\ ~decided => result = r

\* FALSE AND p interpreted with p unbound returned false
C19_Witness ==
    /\ op = "interpret"
    /\ tree = BinaryExpression("And", BooleanConstantExpression(FALSE), BoolVar("p"))
    /\ <<"p">> \notin DOMAIN context
    /\ result = Returned(FALSE)

\* what interpret(context) of a node of the tree just interpreted gave: the
\* recorded result for the tree itself
Outcome(s) ==
    IF s = tree THEN result
    ELSE IF s.type \in {"BooleanVariable", "BooleanConstant", "And", "Or", "Not"}
    THEN BooleanInterpret(s, context)
    ELSE Interpret(s, context)

\* the operands of a node that interpret(context) evaluates, in the order of
\* evaluation: the divisor of a DivideExpression comes first and its left
\* operand only after a divisor other than 0, the right operand of AND only
\* after a true left one, the right operand of OR only after a false left one
EvaluatedOperands(s) ==
    CASE s.type \in {"Add", "Subtract", "Multiply"} ->
            IF Outcome(s.left).kind = "throw" THEN <<s.left>> ELSE <<s.left, s.right>>
      [] s.type = "Divide" ->
            IF Outcome(s.right).kind = "throw" \/ Outcome(s.right).value.num = 0
            THEN <<s.right>> ELSE <<s.right, s.left>>
      [] s.type = "And" ->
            IF Outcome(s.left) = Returned(TRUE) THEN <<s.left, s.right>> ELSE <<s.left>>
      [] s.type = "Or" ->
            IF Outcome(s.left) = Returned(FALSE) THEN <<s.left, s.right>> ELSE <<s.left>>
      [] s.type = "Not" -> <<s.expression>>
      [] OTHER -> << >>

\* C21: in the tree just interpreted, a variable node whose name is not bound
\* in the Context or BooleanContext gives the undefined-variable error naming
\* it, and a node gives the error of the first operand it evaluates that
\* fails, so that the call returns no value.
C21_UndefinedVariable ==
    op = "interpret" =>
        \A s \in Subtrees(tree) :
            /\ s.type = "Variable" /\ s.name \notin DOMAIN context =>
                  Outcome(s) = Thrown("Variable not defined", s.name)
            /\ s.type = "BooleanVariable" /\ s.name \notin DOMAIN context =>
                  Outcome(s) = Thrown("Boolean variable not defined", s.name)
            /\ \A i \in DOMAIN EvaluatedOperands(s) :
                  LET operand == Outcome(EvaluatedOperands(s)[i])
                  IN  operand.kind = "throw" =>
                          /\ i = Len(EvaluatedOperands(s))
                          /\ Outcome(s) = operand

\* (a + b) / 2 interpreted with a bound and b unbound failed with the
\* undefined-variable error naming b
C21_Witness ==
    /\ op = "interpret"
    /\ tree = BinaryExpression("Divide", BinaryExpression("Add", Var("a"), Var("b")),
                               NumberExpression(Num(2)))
    /\ <<"a">> \in DOMAIN context
    /\ <<"b">> \notin DOMAIN context
    /\ result = Thrown("Variable not defined", <<"b">>)

\* a text was given to ExpressionParser.parse, which has just returned or thrown
Parsed(text) == op = "ExpressionParser.parse" /\ expression = [parsed |-> TRUE, text |-> text]

\* C22 as stated: parse('') and parse of a text of spaces only throw the
\* empty-expression error and return no tree.
C22_EmptyExpression ==
    Parsed(ArithmeticTexts.empty) \/ Parsed(ArithmeticTexts.blank) =>
        /\ ret = "throw: Empty expression"
        /\ tree = NoTree

\* C23 as stated: parse('a +') and parse('a b') throw and return no tree.
C23_MalformedInput ==
    Parsed(ArithmeticTexts.dangling) \/ Parsed(ArithmeticTexts.juxtaposed) =>
        /\ ret # "tree"
        /\ tree = NoTree

\* C24 as stated: the tree parse('a + b * c') gives evaluates to (a + b) * c
\* when a, b and c are bound.
C24_LeftToRight ==
    Interpreted(ArithmeticTexts.sumProduct) /\ Bound(Variables) =>
        result = Returned(Num((context[<<"a">>].num + context[<<"b">>].num)
                              * context[<<"c">>].num))

\* C24 (amended): parse groups by the usual precedence: 'a + b * c', with or
\* without spaces, gives AddExpression(a, MultiplyExpression(b, c)) and
\* 'a * b + c' gives AddExpression(MultiplyExpression(a, b), c); the parsed
\* 'a + b * c' never evaluates to a value other than a + (b * c).
C24_StandardPrecedence ==
    /\ expression.text \in {ArithmeticTexts.sumProduct, ArithmeticTexts.sumProductTight} =>
          tree = BinaryExpression("Add", Var("a"), BinaryExpression("Multiply", Var("b"), Var("c")))
    /\ expression.text = ArithmeticTexts.productSum =>
          tree = BinaryExpression("Add", BinaryExpression("Multiply", Var("a"), Var("b")), Var("c"))
    /\ Interpreted(ArithmeticTexts.sumProductTight) /\ result.kind = "value" =>
          result.value = Arithmetic("Add", context[<<"a">>],
                                    Arithmetic("Multiply", context[<<"b">>], context[<<"c">>]))

\* parse('a+b*c') interpreted with a = 2, b = 5, c = 7 gave 37, where
\* (a + b) * c is 49
C24_Witness ==
    /\ Interpreted(ArithmeticTexts.sumProductTight)
    /\ Bound(Variables)
    /\ context[<<"a">>] = Num(2)
    /\ context[<<"b">>] = Num(5)
    /\ context[<<"c">>] = Num(7)
    /\ result = Returned(Num(37))

\* C30: the trees parse('a - b - c') and parse('a / b / c') give evaluate like
\* the hand-built Subtract(Subtract(a, b), c) and Divide(Divide(a, b), c) in
\* every context, to a - b - c when the three are bound, and to a / (b * c)
\* when in addition b and c are not 0.
C30_LeftAssociative ==
    /\ Interpreted(ArithmeticTexts.differences) =>
          /\ result = Interpret(BinaryExpression("Subtract",
                                    BinaryExpression("Subtract", Var("a"), Var("b")), Var("c")),
                                context)
          /\ Bound(Variables) =>
                result = Returned(Num(context[<<"a">>].num - context[<<"b">>].num
                                      - context[<<"c">>].num))
    /\ Interpreted(ArithmeticTexts.quotients) =>
          /\ result = Interpret(BinaryExpression("Divide",
                                    BinaryExpression("Divide", Var("a"), Var("b")), Var("c")),
                                context)
          /\ Bound(Variables) /\ context[<<"b">>].num # 0 /\ context[<<"c">>].num # 0 =>
                result = Returned(Fraction(context[<<"a">>].num,
                                           context[<<"b">>].num * context[<<"c">>].num))

\* parse('a - b - c') interpreted with a = 10, b = 5, c = 2 gave 3, where
\* a - (b - c) is 7
C30_Witness ==
    /\ Interpreted(ArithmeticTexts.differences)
    /\ Bound(Variables)
    /\ context[<<"a">>] = Num(10)
    /\ context[<<"b">>] = Num(5)
    /\ context[<<"c">>] = Num(2)
    /\ result = Returned(Num(3))

C26_OnlySaveStateChangesSnapshots ==
    [][/\ op' \in {"undo", "redo"} => mementos' = mementos
       /\ mementos' # mementos => op' = "saveState"
      ]_vars

\* undo() stepped back from the second of three snapshots: one snapshot lies
\* before the cursor's and one after it
C26_Witness ==
    /\ op = "undo"
    /\ ret = "true"
    /\ Len(mementos) = 3
    /\ currentIndex = 0

\* C29 as stated: for a tree of variables, AND, OR and NOT, the tree that
\* parse gives for the tree's toString() evaluates, in the context at hand, to
\* what the tree evaluates to.
C29_RoundTrip ==
    [][/\ op' = "toString, BooleanExpressionParser.parse"
       /\ \A s \in Subtrees(tree) : s.type # "BooleanConstant"
       => BooleanInterpret(tree', context) = BooleanInterpret(tree, context)
      ]_vars

\* the receivers of a command: the objects its execute() and undo() act on
RECURSIVE Receivers(_)
Receivers(c) ==
    CASE c.type \in {"LightOn", "LightOff"} -> {"light"}
      [] c.type = "Fan" -> {"fan"}
      [] c.type = "Macro" -> UNION {Receivers(c.commands[i]) : i \in DOMAIN c.commands}

\* C27 as stated: undoLastCommand() with an empty history changes nothing;
\* otherwise it removes the last command of the history and puts the status
\* of the Light and the speed of the Fan, whichever the command acts on, back
\* to what they were just before that command was executed.
C27_UndoRestoresReceiver ==
    [][op' = "undoLastCommand" =>
            IF history = << >>
            THEN UNCHANGED <<light, fan, commands, history>>
            ELSE LET c == history[Len(history)]
                     was == before[Len(before)]
                 IN  /\ history' = SubSeq(history, 1, Len(history) - 1)
                     /\ "light" \in Receivers(c) => light' = was.light
                     /\ "fan" \in Receivers(c) => fan'.speed = was.fan.speed
      ]_vars

\* C28: a step that takes the Document into Published is a publish() called
\* in Moderation, and publish() called in Draft, Rejected or Archived throws
\* that state's error and leaves the status and the content as they were.
C28_PublishedOnlyFromModeration ==
    [][/\ status' = "Published" /\ status # "Published" =>
            /\ status = "Moderation"
            /\ op' = "publish"
       /\ op' = "publish" /\ status \in {"Draft", "Rejected", "Archived"} =>
            /\ ret' = (CASE status = "Draft" -> "Cannot publish directly from Draft state"
                         [] status = "Rejected" -> "Cannot publish a Rejected state document"
                         [] status = "Archived" -> "Cannot publish an Archived state document")
            /\ status' = status
            /\ content' = content
      ]_vars

\* publish() was refused for an archived Document that has content
C28_Witness ==
    /\ op = "publish"
    /\ ret = "Cannot publish an Archived state document"
    /\ status = "Archived"
    /\ content # << >>

====
